---- MODULE Spec2Model ----
(***************************************************************************)
(* A model of the MTProto client core of src/mtproto.go: the two-tier send *)
(* queue, the four workers (send, read, transfer, ping), the dispatcher    *)
(* (process), the pending table (msgsByID) and the reconnect procedure     *)
(* (reconnectLogged, Reconnect, reconnectToDc, Connect).                   *)
(*                                                                         *)
(* Goroutines are processes with a program counter; a step is one          *)
(* operation on shared state (a channel operation, a critical section of   *)
(* the mutex, a socket operation) together with the local computation      *)
(* around it.  The server and the network are the environment: what a      *)
(* read returns and whether an I/O operation fails are chosen              *)
(* nondeterministically.                                                   *)
(***************************************************************************)
EXTENDS Integers, Sequences, FiniteSets, TLC

(***************************************************************************)
(* Program constants and bounds of the model.                              *)
(***************************************************************************)
ROUTINES_COUNT == 4

\* cap(extSendQueue) and cap(sendQueue), scaled down from 64 and 1024
ExtCap == 1
IntCap == 2

\* packets created besides handshakes, worker goroutines alive at once
MaxPackets == 4
MaxWorkers == 8
\* I/O failures of workers, failed connect attempts, calls of the public
\* Reconnect / of the migration in Auth
MaxFail == 2
MaxConnFail == 1
MaxAppOps == 1
\* handshake packets (one per connect that reaches its handshake)
MaxHs == 3

\* the data centres the server's config lists, and the ids a migration may name
ServerDcs == {1, 2}
DcIds == {1, 2, 3}
\* server salts, msg_ids of inbound messages
Salts == {1, 2}
SrvIds == {1, 2}

APP == 0 - 1
AUTO == 0 - 2
Threads == {APP, AUTO}
Workers == 1 .. MaxWorkers
\* the routine a worker slot runs
TypeOf(w) ==
    CASE w % 4 = 1 -> "send" [] w % 4 = 2 -> "read"
      [] w % 4 = 3 -> "transfer" [] OTHER -> "ping"

(***************************************************************************)
(* TL values.  A value is [t, a, b, sub]: its constructor, two integer     *)
(* fields and its nested messages (the items of a msg_container, the       *)
(* inner object of an rpc_result), each nested message being               *)
(* [msgID, seqNo, data].                                                   *)
(***************************************************************************)
TL(t, a, b, ids, sub) == [t |-> t, a |-> a, b |-> b, ids |-> ids, sub |-> sub]
Leaf(t, a, b) == TL(t, a, b, <<>>, <<>>)
TL_MT_message(id, seq, d) == [msgID |-> id, seqNo |-> seq, data |-> d]
TL_rpc_result(req, obj) == TL("rpc_result", req, 0, <<>>, <<TL_MT_message(0, 0, obj)>>)
TL_msg_container(items) == TL("msg_container", 0, 0, <<>>, items)
TL_msgs_ack(ids) == TL("msgs_ack", 0, 0, ids, <<>>)
TL_pong(msgId, pingId) == Leaf("pong", msgId, pingId)
TL_ping(pingId) == Leaf("ping", pingId, 0)
TL_bad_server_salt(badMsgId, salt) == Leaf("bad_server_salt", badMsgId, salt)
TL_none == Leaf("none", 0, 0)
NoMsg == TL_MT_message(0, 0, TL_none)

\* packetToSend, with the value its response channel received (val) and the
\* number of values written to that channel (delivered)
newPacket(msg, resp) ==
    [msgID |-> 0, seqNo |-> 0, msg |-> msg, resp |-> resp, needAck |-> FALSE,
     val |-> "none", delivered |-> 0]

\* one step of the dispatcher
Op(o, a, v, ids, msg) == [op |-> o, a |-> a, v |-> v, ids |-> ids, msg |-> msg]

(***************************************************************************)
(* process: the steps the dispatcher takes for one inbound object, in the  *)
(* order the code takes them.  h is m.handleEvent != nil.                  *)
(***************************************************************************)
RECURSIVE ProcessOps(_, _, _, _, _)
RECURSIVE ItemsOps(_, _)
RECURSIVE ItemsAckedFirst(_, _)

\* a container loop that acknowledges an item before it dispatches it
ItemsAckedFirst(items, h) ==
    IF items = <<>> THEN <<>>
    ELSE (IF Head(items).seqNo % 2 = 1
          THEN <<Op("push", 0, "", <<>>, TL_msgs_ack(<<Head(items).msgID>>))>>
          ELSE <<>>)
         \o ProcessOps(Head(items).msgID, 0, Head(items).data, TRUE, h)
         \o ItemsAckedFirst(Tail(items), h)

ItemsOps(items, h) ==
    IF items = <<>> THEN <<>>
    ELSE ProcessOps(Head(items).msgID, Head(items).seqNo, Head(items).data, TRUE, h)
         \o ItemsOps(Tail(items), h)

\* an acknowledgement that does not look at the seq_no
AckAlways(msgId, seqNo) == <<Op("push", 0, "", <<>>, TL_msgs_ack(<<msgId>>))>>

\* if (seqNo & 1) == 1 { m.sendQueue <- newPacket(TL_msgs_ack{[]int64{msgId}}, nil) }
AckOps(msgId, seqNo) ==
    IF seqNo % 2 = 1
    THEN <<Op("push", 0, "", <<>>, TL_msgs_ack(<<msgId>>))>>
    ELSE <<>>

InnerSeqNo == 0

\* an rpc_result whose inner object may go to the event handler
InnerPasses == TRUE

\* m.process(msgId, 0, data.obj, false)
InnerMayPass == FALSE

ProcessOps(msgId, seqNo, d, mayPassToHandler, h) ==
    LET body ==
        CASE d.t = "msg_container" -> ItemsOps(d.sub, h)
          [] d.t = "bad_server_salt" ->
                <<Op("salt", d.b, "", <<>>, TL_none), Op("resend", 0, "", <<>>, TL_none)>>
          [] d.t = "bad_msg_notification" -> <<Op("clear", d.a, d.t, <<>>, TL_none)>>
          [] d.t = "msgs_state_info" -> <<Op("clear", d.a, d.t, <<>>, TL_none)>>
          [] d.t = "new_session_created" -> <<Op("salt", d.b, "", <<>>, TL_none)>>
          [] d.t = "ping" -> <<Op("push", 0, "", <<>>, TL_pong(msgId, d.a))>>
          [] d.t = "pong" -> <<>>
          [] d.t = "msgs_ack" -> <<Op("acked", 0, "", d.ids, TL_none)>>
          [] d.t = "rpc_result" ->
                ProcessOps(msgId, InnerSeqNo, d.sub[1].data, InnerMayPass, h)
                \o <<Op("clear", d.a, d.sub[1].data.t, <<>>, TL_none)>>
          [] OTHER ->
                IF mayPassToHandler /\ h
                THEN <<Op("event", 0, d.t, <<>>, TL_none)>>
                ELSE <<>>
    IN body \o AckOps(msgId, seqNo)

(***************************************************************************)
(* The state of an MTProto value and of the goroutines working on it.      *)
(***************************************************************************)
VARIABLES
    conn,             \* m.conn: "nil", "open" or "closed"
    encryptionReady,  \* m.encryptionReady
    session,          \* m.session: [DcID, Addr, ServerSalt]
    store,            \* what sessionStore.Save received last
    dcOptions,        \* the ids of m.dcOptions
    handleEvent,      \* m.handleEvent != nil
    extSendQueue,     \* the external queue: packet ids
    sendQueue,        \* the internal queue: packet ids
    routinesStop,     \* number of stop tokens in m.routinesStop
    routinesWG,       \* the counter of m.routinesWG
    mutex,            \* 0 when free, else who holds m.mutex
    reconnSemaphore,  \* number of tokens in m.reconnSemaphore
    packets,          \* the packetToSend values created so far
    msgsByID,         \* m.msgsByID: the packets in it, keyed by their msgID
    lastMsgId,        \* the last msg_id generated
    lastSeqNo,        \* m.lastSeqNo
    threads,          \* the goroutines running Connect / reconnectToDc
    spawned,          \* reconnectLogged goroutines started and not yet run
    workers,          \* the worker goroutines
    unsent,           \* packets taken from sendQueue and not yet written
    moving,           \* packets taken from extSendQueue and not yet moved
    written,          \* packets handed to the socket while it was open
    events,           \* object kinds handed to the event handler
    budget            \* what has been used of the bounds: [fail, connFail, appOps, hs, pk]

vars == <<conn, encryptionReady, session, store, dcOptions, handleEvent,
          extSendQueue, sendQueue, routinesStop, routinesWG, mutex,
          reconnSemaphore, packets, msgsByID, lastMsgId, lastSeqNo, threads,
          spawned, workers, unsent, moving, written, events, budget>>

NoWorker == [pc |-> "none", pkt |-> 0, ops |-> <<>>, push |-> {}, cur |-> NoMsg,
             acks |-> {}]
Started == [NoWorker EXCEPT !.pc = "loop"]

IdleThread == [pc |-> "idle", op |-> "none", newDc |-> 0, i |-> 0,
               pendingIDs |-> {}, hs |-> 0, toPush |-> {}, settled |-> {}]

\* NewMTProtoExt followed by InitSession with no stored session
Init ==
    /\ conn = "nil"
    /\ encryptionReady = FALSE
    /\ session = [DcID |-> 0, Addr |-> 0, ServerSalt |-> 0]
    /\ store = [saved |-> FALSE, ServerSalt |-> 0, Addr |-> 0]
    /\ dcOptions = {}
    /\ handleEvent = FALSE
    /\ extSendQueue = <<>>
    /\ sendQueue = <<>>
    /\ routinesStop = 0
    /\ routinesWG = 0
    /\ mutex = 0
    /\ reconnSemaphore = 0
    /\ packets = <<>>
    /\ msgsByID = {}
    /\ lastMsgId = 0
    /\ lastSeqNo = 0
    /\ threads = [t \in Threads |-> IdleThread]
    /\ spawned = 0
    /\ workers = [w \in Workers |-> NoWorker]
    /\ unsent = <<>>
    /\ moving = <<>>
    /\ written = {}
    /\ events = {}
    /\ budget = [fail |-> 0, connFail |-> 0, appOps |-> 0, hs |-> 0, pk |-> 0]

(***************************************************************************)
(* Helpers on the state.                                                   *)
(***************************************************************************)
SetField(pk, p, f, v) == [pk EXCEPT ![p] = [pk[p] EXCEPT ![f] = v]]

Remove(q, x) == SelectSeq(q, LAMBDA y : y # x)

\* m.msgsByID[id]: the packets of the table with that msg_id (none or one)
Lookup(id) == {p \in msgsByID : packets[p].msgID = id}

FreeSlots(type) == {w \in Workers : TypeOf(w) = type /\ workers[w].pc = "none"}
FirstFree(S) == CHOOSE w \in S : \A v \in S : w <= v
CanStart(a, b) == FreeSlots(a) # {} /\ FreeSlots(b) # {}

\* go a(); go b(): two new goroutines
StartTwo(wk, a, b) ==
    [wk EXCEPT ![FirstFree(FreeSlots(a))] = Started,
               ![FirstFree(FreeSlots(b))] = Started]

\* the deferred m.routinesWG.Done() of a worker that returns
Exit(w) ==
    /\ workers' = [workers EXCEPT ![w] = NoWorker]
    /\ routinesWG' = routinesWG - 1

\* case <-m.routinesStop: return
StopWorker(w) ==
    /\ routinesStop > 0
    /\ routinesStop' = routinesStop - 1
    /\ Exit(w)

(***************************************************************************)
(* Callers.                                                                *)
(***************************************************************************)
\* Send / SendSync: a new packet with a response channel on the external queue
Send ==
    /\ Len(extSendQueue) < ExtCap
    /\ budget.pk < MaxPackets
    /\ budget' = [budget EXCEPT !.pk = @ + 1]
    /\ packets' = Append(packets, newPacket(Leaf("request", 0, 0), TRUE))
    /\ extSendQueue' = Append(extSendQueue, Len(packets) + 1)
    /\ UNCHANGED <<conn, encryptionReady, session, store, dcOptions, handleEvent,
                   sendQueue, routinesStop, routinesWG, mutex, reconnSemaphore,
                   msgsByID, lastMsgId, lastSeqNo, threads, spawned, workers,
                   unsent, moving, written, events>>

SetEventsHandler ==
    /\ ~handleEvent
    /\ handleEvent' = TRUE
    /\ UNCHANGED <<conn, encryptionReady, session, store, dcOptions,
                   extSendQueue, sendQueue, routinesStop, routinesWG, mutex,
                   reconnSemaphore, packets, msgsByID, lastMsgId, lastSeqNo,
                   threads, spawned, workers, unsent, moving, written, events, budget>>

(***************************************************************************)
(* queueTransferRoutine                                                    *)
(***************************************************************************)
\* a transfer loop that does not look at the length of the internal queue
TransferAlways(w) ==
    /\ TypeOf(w) = "transfer" /\ workers[w].pc = "loop"
    /\ workers' = [workers EXCEPT ![w].pc = "select"]
    /\ UNCHANGED <<conn, encryptionReady, session, store, dcOptions, handleEvent,
                   extSendQueue, sendQueue, routinesStop, routinesWG, mutex,
                   reconnSemaphore, packets, msgsByID, lastMsgId, lastSeqNo,
                   threads, spawned, unsent, moving, written, events, budget>>

\* the test of len(m.sendQueue) and, in its else branch, the select with default
TransferLoop(w) ==
    /\ TypeOf(w) = "transfer" /\ workers[w].pc = "loop"
    /\ IF Len(sendQueue) < ExtCap
       THEN /\ workers' = [workers EXCEPT ![w].pc = "select"]
            /\ UNCHANGED <<routinesStop, routinesWG>>
       ELSE StopWorker(w)
    /\ UNCHANGED <<conn, encryptionReady, session, store, dcOptions, handleEvent,
                   extSendQueue, sendQueue, mutex, reconnSemaphore, packets,
                   msgsByID, lastMsgId, lastSeqNo, threads, spawned, unsent,
                   moving, written, events, budget>>

\* select { case <-m.routinesStop: return; case msg := <-m.extSendQueue: }
TransferSelect(w) ==
    /\ TypeOf(w) = "transfer" /\ workers[w].pc = "select"
    /\ \/ /\ StopWorker(w)
          /\ UNCHANGED <<extSendQueue, moving>>
       \/ /\ extSendQueue # <<>>
          /\ workers' = [workers EXCEPT ![w].pc = "push", ![w].pkt = Head(extSendQueue)]
          /\ extSendQueue' = Tail(extSendQueue)
          /\ moving' = Append(moving, Head(extSendQueue))
          /\ UNCHANGED <<routinesStop, routinesWG>>
    /\ UNCHANGED <<conn, encryptionReady, session, store, dcOptions, handleEvent,
                   sendQueue, mutex, reconnSemaphore, packets, msgsByID,
                   lastMsgId, lastSeqNo, threads, spawned, unsent, written,
                   events, budget>>

\* m.sendQueue <- msg
TransferPush(w) ==
    /\ TypeOf(w) = "transfer" /\ workers[w].pc = "push"
    /\ Len(sendQueue) < IntCap
    /\ sendQueue' = Append(sendQueue, workers[w].pkt)
    /\ moving' = Remove(moving, workers[w].pkt)
    /\ workers' = [workers EXCEPT ![w].pc = "loop", ![w].pkt = 0]
    /\ UNCHANGED <<conn, encryptionReady, session, store, dcOptions, handleEvent,
                   extSendQueue, routinesStop, routinesWG, mutex, reconnSemaphore,
                   packets, msgsByID, lastMsgId, lastSeqNo, threads, spawned,
                   unsent, written, events, budget>>

(***************************************************************************)
(* pingRoutine                                                             *)
(***************************************************************************)
\* select { case <-m.routinesStop: return; ... }
PingLoop(w) ==
    /\ TypeOf(w) = "ping" /\ workers[w].pc = "loop"
    /\ StopWorker(w)
    /\ UNCHANGED <<conn, encryptionReady, session, store, dcOptions, handleEvent,
                   extSendQueue, sendQueue, mutex, reconnSemaphore, packets,
                   msgsByID, lastMsgId, lastSeqNo, threads, spawned, unsent,
                   moving, written, events, budget>>

\* select { ...; case <-time.After(60 * time.Second): }
PingTimer(w) ==
    /\ TypeOf(w) = "ping" /\ workers[w].pc = "loop"
    /\ budget.pk < MaxPackets
    /\ budget' = [budget EXCEPT !.pk = @ + 1]
    /\ packets' = Append(packets, newPacket(TL_ping(0), FALSE))
    /\ workers' = [workers EXCEPT ![w].pc = "push", ![w].pkt = Len(packets) + 1]
    /\ UNCHANGED <<conn, encryptionReady, session, store, dcOptions, handleEvent,
                   extSendQueue, sendQueue, routinesStop, routinesWG, mutex,
                   reconnSemaphore, msgsByID, lastMsgId, lastSeqNo, threads,
                   spawned, unsent, moving, written, events>>

\* m.sendQueue <- newPacket(TL_ping{0xCADACADA}, nil)
PingPush(w) ==
    /\ TypeOf(w) = "ping" /\ workers[w].pc = "push"
    /\ Len(sendQueue) < IntCap
    /\ sendQueue' = Append(sendQueue, workers[w].pkt)
    /\ workers' = [workers EXCEPT ![w].pc = "loop", ![w].pkt = 0]
    /\ UNCHANGED <<conn, encryptionReady, session, store, dcOptions, handleEvent,
                   extSendQueue, routinesStop, routinesWG, mutex, reconnSemaphore,
                   packets, msgsByID, lastMsgId, lastSeqNo, threads, spawned,
                   unsent, moving, written, events, budget>>

(***************************************************************************)
(* What a reconnect in progress has seen happen to the ids of its          *)
(* snapshot (pendingIDs holds <<msg_id, seq_no>> as they were then).       *)
(***************************************************************************)
\* ids left the pending table through the dispatcher
Gone(th, ids) ==
    [t \in Threads |->
        [th[t] EXCEPT !.settled = @ \cup {x[1] : x \in {y \in th[t].pendingIDs : y[1] \in ids}}]]

\* packet p, as it is in pk, was put on the internal queue again
Requeued(th, pk, p) ==
    [t \in Threads |->
        [th[t] EXCEPT !.settled =
            @ \cup {x[1] : x \in {y \in th[t].pendingIDs :
                                    y = <<pk[p].msgID, pk[p].seqNo>>}}]]

(***************************************************************************)
(* sendRoutine and send                                                    *)
(***************************************************************************)
\* select { case <-m.routinesStop: return; case x := <-m.sendQueue: }
SendLoop(w) ==
    /\ TypeOf(w) = "send" /\ workers[w].pc = "loop"
    /\ \/ /\ StopWorker(w)
          /\ UNCHANGED <<sendQueue, unsent>>
       \/ /\ sendQueue # <<>>
          /\ workers' = [workers EXCEPT ![w].pc = "send", ![w].pkt = Head(sendQueue)]
          /\ sendQueue' = Tail(sendQueue)
          /\ unsent' = Append(unsent, Head(sendQueue))
          /\ UNCHANGED <<routinesStop, routinesWG>>
    /\ UNCHANGED <<conn, encryptionReady, session, store, dcOptions, handleEvent,
                   extSendQueue, mutex, reconnSemaphore, packets, msgsByID,
                   lastMsgId, lastSeqNo, threads, spawned, moving, written, events, budget>>

\* send: the packet gets its msg_id and seq_no when it has none yet
Assigned(pk, p) ==
    LET first == pk[p].msgID = 0
        content == pk[p].msg.t # "msgs_ack"
    IN [pk EXCEPT ![p].needAck = content,
                  ![p].msgID = IF first THEN lastMsgId + 1 ELSE @,
                  ![p].seqNo = IF ~first THEN @
                               ELSE IF content THEN lastSeqNo + 1 ELSE lastSeqNo]

\* m.send(x): the packet is given its ids, recorded in the pending table
\* under the mutex, and handed to the socket
send(w) ==
    LET p == workers[w].pkt IN
    /\ TypeOf(w) = "send" /\ workers[w].pc = "send"
    /\ mutex = 0
    /\ packets' = Assigned(packets, p)
    /\ lastMsgId' = IF packets[p].msgID = 0 THEN lastMsgId + 1 ELSE lastMsgId
    /\ lastSeqNo' = IF packets[p].msgID = 0 /\ packets[p].msg.t # "msgs_ack"
                    THEN lastSeqNo + 2 ELSE lastSeqNo
    /\ msgsByID' = msgsByID \cup {p}
    /\ unsent' = Remove(unsent, p)
    /\ written' = IF conn = "open" THEN written \cup {p} ELSE written

\* err := m.send(x): err == nil, or IsClosedConnErr(err): continue
SendPacket(w) ==
    /\ send(w)
    /\ workers' = [workers EXCEPT ![w].pc = "loop", ![w].pkt = 0]
    /\ UNCHANGED <<conn, encryptionReady, session, store, dcOptions, handleEvent,
                   extSendQueue, sendQueue, routinesStop, routinesWG, mutex,
                   reconnSemaphore, threads, spawned, moving, events, budget>>

\* err := m.send(x): any other error: go m.reconnectLogged(); return
SendFail(w) ==
    /\ send(w)
    /\ conn = "open"
    /\ budget.fail < MaxFail
    /\ budget' = [budget EXCEPT !.fail = @ + 1]
    /\ spawned' = spawned + 1
    /\ Exit(w)
    /\ UNCHANGED <<conn, encryptionReady, session, store, dcOptions, handleEvent,
                   extSendQueue, sendQueue, routinesStop, mutex, reconnSemaphore,
                   threads, moving, events>>

(***************************************************************************)
(* readRoutine                                                             *)
(***************************************************************************)
\* select { case <-m.routinesStop: return; default: }
ReadLoop(w) ==
    /\ TypeOf(w) = "read" /\ workers[w].pc = "loop"
    /\ IF routinesStop > 0
       THEN StopWorker(w)
       ELSE /\ workers' = [workers EXCEPT ![w] = [Started EXCEPT !.pc = "read"]]
            /\ UNCHANGED <<routinesStop, routinesWG>>
    /\ UNCHANGED <<conn, encryptionReady, session, store, dcOptions, handleEvent,
                   extSendQueue, sendQueue, mutex, reconnSemaphore, packets,
                   msgsByID, lastMsgId, lastSeqNo, threads, spawned, unsent,
                   moving, written, events, budget>>

\* the packets that the pushes of a list of dispatcher steps create
RECURSIVE NewPackets(_)
NewPackets(ops) ==
    IF ops = <<>> THEN <<>>
    ELSE (IF Head(ops).op = "push" THEN <<newPacket(Head(ops).msg, FALSE)>> ELSE <<>>)
         \o NewPackets(Tail(ops))

\* the steps, each push naming its packet (the packets follow the n there are)
RECURSIVE Numbered(_, _)
Numbered(ops, n) ==
    IF ops = <<>> THEN <<>>
    ELSE IF Head(ops).op = "push"
         THEN <<[Head(ops) EXCEPT !.a = n + 1]>> \o Numbered(Tail(ops), n + 1)
         ELSE <<Head(ops)>> \o Numbered(Tail(ops), n)

\* data, err := m.read(), on a connection that is not closed
ReadData(w, M) ==
    /\ TypeOf(w) = "read" /\ workers[w].pc = "read"
    /\ conn = "open"
    /\ \E m \in M :
          LET ops == ProcessOps(m.msgID, m.seqNo, m.data, TRUE, handleEvent) IN
          /\ budget.pk + Len(NewPackets(ops)) <= MaxPackets
          /\ budget' = [budget EXCEPT !.pk = @ + Len(NewPackets(ops))]
          /\ packets' = packets \o NewPackets(ops)
          /\ workers' = [workers EXCEPT ![w] =
                [@ EXCEPT !.pc = IF ops = <<>> THEN "loop" ELSE "process",
                          !.cur = m, !.ops = Numbered(ops, Len(packets))]]
    /\ UNCHANGED <<conn, encryptionReady, session, store, dcOptions, handleEvent,
                   extSendQueue, sendQueue, routinesStop, routinesWG, mutex,
                   reconnSemaphore, msgsByID, lastMsgId, lastSeqNo, threads,
                   spawned, unsent, moving, written, events>>

\* data, err := m.read() fails with an error that is not a closed-connection
\* error: go m.reconnectLogged(); return
ReadFail(w) ==
    /\ TypeOf(w) = "read" /\ workers[w].pc = "read"
    /\ conn = "open"
    /\ budget.fail < MaxFail
    /\ budget' = [budget EXCEPT !.fail = @ + 1]
    /\ spawned' = spawned + 1
    /\ Exit(w)
    /\ UNCHANGED <<conn, encryptionReady, session, store, dcOptions, handleEvent,
                   extSendQueue, sendQueue, routinesStop, mutex, reconnSemaphore,
                   packets, msgsByID, lastMsgId, lastSeqNo, threads, unsent,
                   moving, written, events>>

\* IsClosedConnErr(err): continue
ReadClosed(w) ==
    /\ TypeOf(w) = "read" /\ workers[w].pc = "read"
    /\ conn # "open"
    /\ workers' = [workers EXCEPT ![w].pc = "loop"]
    /\ UNCHANGED <<conn, encryptionReady, session, store, dcOptions, handleEvent,
                   extSendQueue, sendQueue, routinesStop, routinesWG, mutex,
                   reconnSemaphore, packets, msgsByID, lastMsgId, lastSeqNo,
                   threads, spawned, unsent, moving, written, events, budget>>

(***************************************************************************)
(* process, step by step                                                   *)
(***************************************************************************)
Processing(w, o) ==
    /\ TypeOf(w) = "read" /\ workers[w].pc = "process"
    /\ workers[w].ops[1].op = o

\* the worker after the step at the head of its list; after the last step
\* process returns and the read loop goes round
Advance(wr) ==
    [wr EXCEPT !.ops = Tail(@), !.push = {},
               !.pc = IF Len(wr.ops) = 1 THEN "loop" ELSE @]

\* m.sendQueue <- packet, for one packet of pushPendingPacketsUnlocked
pushPending(q, p) == Append(q, p)

\* m.session.ServerSalt = ...; m.SaveSessionLogged()
ProcSalt(w) ==
    /\ Processing(w, "salt")
    /\ session' = [session EXCEPT !.ServerSalt = workers[w].ops[1].a]
    /\ store' = [saved |-> TRUE, ServerSalt |-> workers[w].ops[1].a, Addr |-> session.Addr]
    /\ workers' = [workers EXCEPT ![w] = Advance(@)]
    /\ UNCHANGED <<conn, encryptionReady, dcOptions, handleEvent, extSendQueue,
                   sendQueue, routinesStop, routinesWG, mutex, reconnSemaphore,
                   packets, msgsByID, lastMsgId, lastSeqNo, threads, spawned,
                   unsent, moving, written, events, budget>>

\* resendPendingPackets: m.mutex.Lock() and popPendingPacketsUnlocked
ProcResend(w) ==
    /\ Processing(w, "resend")
    /\ mutex = 0
    /\ msgsByID' = {}
    /\ IF msgsByID = {}
       THEN /\ workers' = [workers EXCEPT ![w] = Advance(@)]
            /\ UNCHANGED mutex
       ELSE /\ workers' = [workers EXCEPT ![w].push = msgsByID,
                                          ![w].ops[1].op = "pushing"]
            /\ mutex' = w
    /\ UNCHANGED <<conn, encryptionReady, session, store, dcOptions, handleEvent,
                   extSendQueue, sendQueue, routinesStop, routinesWG,
                   reconnSemaphore, packets, lastMsgId, lastSeqNo, threads,
                   spawned, unsent, moving, written, events, budget>>

\* pushPendingPacketsUnlocked with the mutex held, one packet at a time in the
\* order the map gave them; m.mutex.Unlock() follows the last
ProcPushing(w) ==
    /\ Processing(w, "pushing")
    /\ Len(sendQueue) < IntCap
    /\ \E p \in workers[w].push :
        /\ sendQueue' = pushPending(sendQueue, p)
        /\ threads' = Requeued(threads, packets, p)
        /\ IF workers[w].push = {p}
           THEN /\ workers' = [workers EXCEPT ![w] = Advance(@)]
                /\ mutex' = 0
           ELSE /\ workers' = [workers EXCEPT ![w].push = @ \ {p}]
                /\ UNCHANGED mutex
    /\ UNCHANGED <<conn, encryptionReady, session, store, dcOptions, handleEvent,
                   extSendQueue, routinesStop, routinesWG, reconnSemaphore,
                   packets, msgsByID, lastMsgId, lastSeqNo, spawned, unsent,
                   moving, written, events, budget>>

\* a clearPacketData that writes to the channel without the test of packet.resp
clearUnchecked(pk, tbl, msgID, response) ==
    LET found == {p \in tbl : pk[p].msgID = msgID} IN
    [packets |-> [p \in DOMAIN pk |->
                    IF p \in found
                    THEN [pk[p] EXCEPT !.val = response, !.delivered = @ + 1,
                                       !.resp = FALSE]
                    ELSE pk[p]],
     msgsByID |-> tbl \ found]

\* clearPacketData: the packets and the table after it
clearPacketData(pk, tbl, msgID, response) ==
    LET found == {p \in tbl : pk[p].msgID = msgID} IN
    [packets |-> [p \in DOMAIN pk |->
                    IF p \in found /\ pk[p].resp
                    THEN [pk[p] EXCEPT !.val = response, !.delivered = @ + 1,
                                       !.resp = FALSE]
                    ELSE pk[p]],
     msgsByID |-> tbl \ found]

ProcClear(w) ==
    LET o == workers[w].ops[1]
        after == clearPacketData(packets, msgsByID, o.a, o.v)
    IN
    /\ Processing(w, "clear")
    /\ mutex = 0
    /\ packets' = after.packets
    /\ msgsByID' = after.msgsByID
    /\ threads' = Gone(threads, {packets[p].msgID : p \in msgsByID \ after.msgsByID})
    /\ workers' = [workers EXCEPT ![w] = Advance(@)]
    /\ UNCHANGED <<conn, encryptionReady, session, store, dcOptions, handleEvent,
                   extSendQueue, sendQueue, routinesStop, routinesWG, mutex,
                   reconnSemaphore, lastMsgId, lastSeqNo, spawned, unsent,
                   moving, written, events, budget>>

\* a msgs_ack that removes every packet it names
msgsAckedRemoved(pk, tbl, ids) ==
    LET listed == {p \in tbl : \E i \in DOMAIN ids : pk[p].msgID = ids[i]} IN
    [packets |-> [p \in DOMAIN pk |->
                    IF p \in listed THEN [pk[p] EXCEPT !.needAck = FALSE] ELSE pk[p]],
     msgsByID |-> tbl \ listed]

\* a msgs_ack that leaves the needAck flag of the packets it keeps
msgsAckedFlagKept(pk, tbl, ids) ==
    LET listed == {p \in tbl : \E i \in DOMAIN ids : pk[p].msgID = ids[i]} IN
    [packets |-> [p \in DOMAIN pk |->
                    IF p \in listed /\ ~pk[p].resp
                    THEN [pk[p] EXCEPT !.needAck = FALSE] ELSE pk[p]],
     msgsByID |-> tbl \ {p \in listed : ~pk[p].resp}]

\* case TL_msgs_ack: the packets and the table after the loop over data.MsgIds
msgsAcked(pk, tbl, ids) ==
    LET listed == {p \in tbl : \E i \in DOMAIN ids : pk[p].msgID = ids[i]} IN
    [packets |-> [p \in DOMAIN pk |->
                    IF p \in listed THEN [pk[p] EXCEPT !.needAck = FALSE] ELSE pk[p]],
     msgsByID |-> tbl \ {p \in listed : ~pk[p].resp}]

ProcAcked(w) ==
    LET after == msgsAcked(packets, msgsByID, workers[w].ops[1].ids) IN
    /\ Processing(w, "acked")
    /\ mutex = 0
    /\ packets' = after.packets
    /\ msgsByID' = after.msgsByID
    /\ threads' = Gone(threads, {packets[p].msgID : p \in msgsByID \ after.msgsByID})
    /\ workers' = [workers EXCEPT ![w] = Advance(@)]
    /\ UNCHANGED <<conn, encryptionReady, session, store, dcOptions, handleEvent,
                   extSendQueue, sendQueue, routinesStop, routinesWG, mutex,
                   reconnSemaphore, lastMsgId, lastSeqNo, spawned, unsent,
                   moving, written, events, budget>>

\* m.sendQueue <- newPacket(TL_pong{...}, nil) and the msgs_ack of an odd seq_no
ProcPush(w) ==
    /\ Processing(w, "push")
    /\ Len(sendQueue) < IntCap
    /\ sendQueue' = Append(sendQueue, workers[w].ops[1].a)
    /\ workers' = [workers EXCEPT ![w] = [Advance(@) EXCEPT !.acks =
                      IF workers[w].ops[1].msg.t = "msgs_ack"
                      THEN @ \cup {workers[w].ops[1].a} ELSE @]]
    /\ UNCHANGED <<conn, encryptionReady, session, store, dcOptions, handleEvent,
                   extSendQueue, routinesStop, routinesWG, mutex, reconnSemaphore,
                   packets, msgsByID, lastMsgId, lastSeqNo, threads, spawned,
                   unsent, moving, written, events, budget>>

\* go m.handleEvent(dataTL)
ProcEvent(w) ==
    /\ Processing(w, "event")
    /\ events' = events \cup {workers[w].ops[1].v}
    /\ workers' = [workers EXCEPT ![w] = Advance(@)]
    /\ UNCHANGED <<conn, encryptionReady, session, store, dcOptions, handleEvent,
                   extSendQueue, sendQueue, routinesStop, routinesWG, mutex,
                   reconnSemaphore, packets, msgsByID, lastMsgId, lastSeqNo,
                   threads, spawned, unsent, moving, written, budget>>

(***************************************************************************)
(* reconnectToDc and Connect, run by the application's goroutine (APP:     *)
(* Connect, Reconnect, the migration of Auth) or by reconnectLogged (AUTO) *)
(***************************************************************************)
DefaultDc == 2

\* a lookup that finds an address for every id
DCAddrAny(dcID) == [addr |-> dcID, ok |-> TRUE]

\* m.DCAddr(dcID, false): the address of a data centre is named by its id
DCAddr(dcID) == [addr |-> dcID, ok |-> dcID \in dcOptions]

\* for i := 0; i < ROUTINES_COUNT; i++ { m.routinesStop <- struct{}{} }
\* (the sends that do not block are taken together)
RStop(t) ==
    LET left == ROUTINES_COUNT - threads[t].i
        room == ROUTINES_COUNT - routinesStop
        n == IF left < room THEN left ELSE room
    IN
    /\ threads[t].pc = "stop"
    /\ n > 0
    /\ routinesStop' = routinesStop + n
    /\ threads' = [threads EXCEPT ![t].i = @ + n,
                                  ![t].pc = IF n = left THEN "close" ELSE "stop"]
    /\ UNCHANGED <<conn, encryptionReady, session, store, dcOptions, handleEvent,
                   extSendQueue, sendQueue, routinesWG, mutex, reconnSemaphore,
                   packets, msgsByID, lastMsgId, lastSeqNo, spawned, workers,
                   unsent, moving, written, events, budget>>

\* if m.conn != nil { m.conn.Close() }
RClose(t) ==
    /\ threads[t].pc = "close"
    /\ conn' = IF conn = "open" THEN "closed" ELSE conn
    /\ threads' = [threads EXCEPT ![t].pc = "wait"]
    /\ UNCHANGED <<encryptionReady, session, store, dcOptions, handleEvent,
                   extSendQueue, sendQueue, routinesStop, routinesWG, mutex,
                   reconnSemaphore, packets, msgsByID, lastMsgId, lastSeqNo,
                   spawned, workers, unsent, moving, written, events, budget>>

\* m.conn.Close() fails with an error that is not a closed-connection error:
\* return merry.Wrap(err)
RCloseFail(t) ==
    /\ threads[t].pc = "close"
    /\ conn = "open"
    /\ budget.connFail < MaxConnFail
    /\ budget' = [budget EXCEPT !.connFail = @ + 1]
    /\ threads' = [threads EXCEPT ![t].pc = "failed"]
    /\ UNCHANGED <<conn, encryptionReady, session, store, dcOptions, handleEvent,
                   extSendQueue, sendQueue, routinesStop, routinesWG, mutex,
                   reconnSemaphore, packets, msgsByID, lastMsgId, lastSeqNo,
                   spawned, workers, unsent, moving, written, events>>

\* m.routinesWG.Wait(), the removal of unused stop signals, the snapshot of
\* the pending ids and the renewal of the session's data centre
RWait(t) ==
    LET dc == threads[t].newDc
        found == DCAddr(dc)
    IN
    /\ threads[t].pc = "wait"
    /\ routinesWG = 0
    /\ routinesStop' = 0
    /\ encryptionReady' = IF dc # session.DcID THEN FALSE ELSE encryptionReady
    /\ IF found.ok
       THEN /\ session' = [session EXCEPT !.DcID = dc, !.Addr = found.addr]
            /\ threads' = [threads EXCEPT
                  ![t].pc = "connect",
                  ![t].pendingIDs = {<<packets[p].msgID, packets[p].seqNo>> : p \in msgsByID},
                  ![t].settled = {}]
       ELSE /\ threads' = [threads EXCEPT ![t].pc = "failed"]
            /\ UNCHANGED session
    /\ UNCHANGED <<conn, store, dcOptions, handleEvent, extSendQueue, sendQueue,
                   routinesWG, mutex, reconnSemaphore, packets, msgsByID,
                   lastMsgId, lastSeqNo, spawned, workers, unsent, moving, written,
                   events, budget>>

\* Connect up to the start of the send and the read worker: dial, 0xef,
\* makeAuthKey and Save when the encryption is not ready
CDial(t) ==
    /\ threads[t].pc = "connect"
    /\ budget.hs < MaxHs
    /\ CanStart("send", "read")
    /\ conn' = "open"
    /\ store' = IF encryptionReady THEN store
                ELSE [saved |-> TRUE, ServerSalt |-> session.ServerSalt,
                      Addr |-> session.Addr]
    /\ encryptionReady' = TRUE
    /\ routinesWG' = routinesWG + 2
    /\ workers' = StartTwo(workers, "send", "read")
    /\ packets' = Append(packets, newPacket(Leaf("invokeWithLayer", 0, 0), TRUE))
    /\ threads' = [threads EXCEPT ![t].pc = "handshake", ![t].hs = Len(packets) + 1]
    /\ budget' = [budget EXCEPT !.hs = @ + 1]
    /\ UNCHANGED <<session, dcOptions, handleEvent, extSendQueue, sendQueue,
                   routinesStop, mutex, reconnSemaphore, msgsByID, lastMsgId,
                   lastSeqNo, spawned, unsent, moving, written, events>>

\* Connect returns an error before it starts a worker: the dial fails
\* (m.conn is nil then), or the first write, the key exchange or the save
CDialFail(t) ==
    /\ threads[t].pc = "connect"
    /\ budget.connFail < MaxConnFail
    /\ budget' = [budget EXCEPT !.connFail = @ + 1]
    /\ conn' \in {"nil", "open"}
    /\ threads' = [threads EXCEPT ![t].pc = "failed"]
    /\ UNCHANGED <<encryptionReady, session, store, dcOptions, handleEvent,
                   extSendQueue, sendQueue, routinesStop, routinesWG, mutex,
                   reconnSemaphore, packets, msgsByID, lastMsgId, lastSeqNo,
                   spawned, workers, unsent, moving, written, events>>

\* sendSyncInternal: m.sendQueue <- newPacket(msg, resp)
CHandshake(t) ==
    /\ threads[t].pc = "handshake"
    /\ Len(sendQueue) < IntCap
    /\ sendQueue' = Append(sendQueue, threads[t].hs)
    /\ threads' = [threads EXCEPT ![t].pc = "config"]
    /\ UNCHANGED <<conn, encryptionReady, session, store, dcOptions, handleEvent,
                   extSendQueue, routinesStop, routinesWG, mutex, reconnSemaphore,
                   packets, msgsByID, lastMsgId, lastSeqNo, spawned, workers,
                   unsent, moving, written, events, budget>>

\* return <-resp, and the rest of Connect
CConfig(t) ==
    LET x == packets[threads[t].hs].val IN
    /\ threads[t].pc = "config"
    /\ packets[threads[t].hs].delivered > 0
    /\ IF x = "config"
       THEN /\ CanStart("transfer", "ping")
            /\ session' = [session EXCEPT
                  !.DcID = IF session.Addr = 0 THEN DefaultDc ELSE session.Addr]
            /\ dcOptions' = dcOptions \cup ServerDcs
            /\ routinesWG' = routinesWG + 2
            /\ workers' = StartTwo(workers, "transfer", "ping")
            /\ threads' = [threads EXCEPT
                  ![t].pc = IF threads[t].op = "connect" THEN "done" ELSE "pending"]
       ELSE /\ threads' = [threads EXCEPT ![t].pc = "failed"]
            /\ UNCHANGED <<session, dcOptions, routinesWG, workers>>
    /\ UNCHANGED <<conn, encryptionReady, store, handleEvent, extSendQueue,
                   sendQueue, routinesStop, mutex, reconnSemaphore, packets,
                   msgsByID, lastMsgId, lastSeqNo, spawned, unsent, moving, written,
                   events, budget>>

\* a final push that passes over the packets nobody waits for
StillAwaited(ids) ==
    {p \in msgsByID : packets[p].resp /\ \E x \in ids : x[1] = packets[p].msgID}

\* the packets of the snapshot that are still in m.msgsByID
StillPending(ids) == {p \in msgsByID : \E x \in ids : x[1] = packets[p].msgID}

\* if len(pendingIDs) > 0 { m.mutex.Lock(); ... }
RPending(t) ==
    LET found == StillPending(threads[t].pendingIDs) IN
    /\ threads[t].pc = "pending"
    /\ IF threads[t].pendingIDs = {}
       THEN /\ threads' = [threads EXCEPT ![t].pc = "done"]
            /\ UNCHANGED mutex
       ELSE /\ mutex = 0
            /\ IF found = {}
               THEN /\ threads' = [threads EXCEPT ![t].pc = "done"]
                    /\ UNCHANGED mutex
               ELSE /\ threads' = [threads EXCEPT ![t].pc = "pushing", ![t].toPush = found]
                    /\ mutex' = t
    /\ UNCHANGED <<conn, encryptionReady, session, store, dcOptions, handleEvent,
                   extSendQueue, sendQueue, routinesStop, routinesWG,
                   reconnSemaphore, packets, msgsByID, lastMsgId, lastSeqNo,
                   spawned, workers, unsent, moving, written, events, budget>>

\* m.pushPendingPacketsUnlocked(packets), one packet at a time;
\* m.mutex.Unlock() and return nil follow the last
RPush(t) ==
    /\ threads[t].pc = "pushing"
    /\ Len(sendQueue) < IntCap
    /\ \E p \in threads[t].toPush :
        /\ sendQueue' = pushPending(sendQueue, p)
        /\ IF threads[t].toPush = {p}
           THEN /\ threads' = [Requeued(threads, packets, p) EXCEPT
                                  ![t].toPush = {}, ![t].pc = "done"]
                /\ mutex' = 0
           ELSE /\ threads' = [Requeued(threads, packets, p) EXCEPT ![t].toPush = @ \ {p}]
                /\ UNCHANGED mutex
    /\ UNCHANGED <<conn, encryptionReady, session, store, dcOptions, handleEvent,
                   extSendQueue, routinesStop, routinesWG, reconnSemaphore,
                   packets, msgsByID, lastMsgId, lastSeqNo, spawned, workers,
                   unsent, moving, written, events, budget>>

(***************************************************************************)
(* The application's calls and reconnectLogged                             *)
(***************************************************************************)
\* InitSessAndConnect: the first Connect
AppConnect ==
    /\ threads[APP].pc = "idle"
    /\ threads' = [threads EXCEPT ![APP] = [IdleThread EXCEPT !.op = "connect",
                                                               !.pc = "connect"]]
    /\ UNCHANGED <<conn, encryptionReady, session, store, dcOptions, handleEvent,
                   extSendQueue, sendQueue, routinesStop, routinesWG, mutex,
                   reconnSemaphore, packets, msgsByID, lastMsgId, lastSeqNo,
                   spawned, workers, unsent, moving, written, events, budget>>

\* Reconnect (dc is the session's data centre) and the reconnectToDc(newDc)
\* of Auth after a migration error
AppReconnect(dc) ==
    /\ threads[APP].pc \in {"done", "failed"}
    /\ budget.appOps < MaxAppOps
    /\ budget' = [budget EXCEPT !.appOps = @ + 1]
    /\ threads' = [threads EXCEPT ![APP] = [IdleThread EXCEPT !.op = "reconnect",
                                                               !.newDc = dc,
                                                               !.pc = "stop"]]
    /\ UNCHANGED <<conn, encryptionReady, session, store, dcOptions, handleEvent,
                   extSendQueue, sendQueue, routinesStop, routinesWG, mutex,
                   reconnSemaphore, packets, msgsByID, lastMsgId, lastSeqNo,
                   spawned, workers, unsent, moving, written, events>>

\* an attempt of reconnectLogged: err := m.reconnectToDc(m.session.DcID)
Attempt == [IdleThread EXCEPT !.op = "logged", !.newDc = session.DcID, !.pc = "stop"]

\* reconnectLogged up to its loop: the select on m.reconnSemaphore
LoggedStart ==
    /\ spawned > 0
    /\ spawned' = spawned - 1
    /\ IF reconnSemaphore = 0
       THEN /\ reconnSemaphore' = 1
            /\ threads' = [threads EXCEPT ![AUTO] = Attempt]
       ELSE UNCHANGED <<reconnSemaphore, threads>>
    /\ UNCHANGED <<conn, encryptionReady, session, store, dcOptions, handleEvent,
                   extSendQueue, sendQueue, routinesStop, routinesWG, mutex,
                   packets, msgsByID, lastMsgId, lastSeqNo, workers, unsent,
                   moving, written, events, budget>>

\* a reconnectLogged that returns after a failed attempt
LoggedGiveUp ==
    /\ threads[AUTO].pc = "failed"
    /\ reconnSemaphore' = reconnSemaphore - 1
    /\ threads' = [threads EXCEPT ![AUTO] = IdleThread]
    /\ UNCHANGED <<conn, encryptionReady, session, store, dcOptions, handleEvent,
                   extSendQueue, sendQueue, routinesStop, routinesWG, mutex,
                   packets, msgsByID, lastMsgId, lastSeqNo, spawned, workers,
                   unsent, moving, written, events, budget>>

\* err != nil: time.Sleep(5 * time.Second) and the next round of the loop
LoggedRetry ==
    /\ threads[AUTO].pc = "failed"
    /\ threads' = [threads EXCEPT ![AUTO] = Attempt]
    /\ UNCHANGED <<conn, encryptionReady, session, store, dcOptions, handleEvent,
                   extSendQueue, sendQueue, routinesStop, routinesWG, mutex,
                   reconnSemaphore, packets, msgsByID, lastMsgId, lastSeqNo,
                   spawned, workers, unsent, moving, written, events, budget>>

\* err == nil: return, and the deferred <-m.reconnSemaphore
LoggedReturn ==
    /\ threads[AUTO].pc = "done"
    /\ reconnSemaphore' = reconnSemaphore - 1
    /\ threads' = [threads EXCEPT ![AUTO] = IdleThread]
    /\ UNCHANGED <<conn, encryptionReady, session, store, dcOptions, handleEvent,
                   extSendQueue, sendQueue, routinesStop, routinesWG, mutex,
                   packets, msgsByID, lastMsgId, lastSeqNo, spawned, workers,
                   unsent, moving, written, events, budget>>

(***************************************************************************)
(* What the server may send: objects that name msg_ids generated so far    *)
(***************************************************************************)
Objects(ids) ==
    {TL_rpc_result(i, Leaf(o, 0, 0)) : i \in ids, o \in {"config", "data"}}
    \cup {TL_bad_server_salt(0, s) : s \in Salts}
    \cup {Leaf("bad_msg_notification", i, 0) : i \in ids}
    \cup {Leaf("msgs_state_info", i, 0) : i \in ids}
    \cup {Leaf("new_session_created", 0, s) : s \in Salts}
    \cup {TL_msgs_ack(<<i>>) : i \in ids}
    \cup {TL_ping(1), TL_pong(0, 0), Leaf("updateShort", 0, 0)}

Inbound ==
    {TL_MT_message(1, q, d) : q \in {0, 1}, d \in Objects(1 .. lastMsgId)}
    \cup {TL_MT_message(1, 0, TL_msg_container(
              <<TL_MT_message(2, 1, TL_ping(1)), TL_MT_message(2, 0, d)>>)) :
          d \in Objects(1 .. lastMsgId)}

(***************************************************************************)
(* The specification                                                       *)
(***************************************************************************)
WorkerStep(w) ==
    \/ TransferLoop(w) \/ TransferSelect(w) \/ TransferPush(w)
    \/ PingLoop(w) \/ PingTimer(w) \/ PingPush(w)
    \/ SendLoop(w) \/ SendPacket(w) \/ SendFail(w)
    \/ ReadLoop(w) \/ ReadData(w, Inbound) \/ ReadFail(w) \/ ReadClosed(w)
    \/ ProcSalt(w) \/ ProcResend(w) \/ ProcPushing(w) \/ ProcClear(w)
    \/ ProcAcked(w) \/ ProcPush(w) \/ ProcEvent(w)

ThreadStep(t) ==
    \/ RStop(t) \/ RClose(t) \/ RCloseFail(t) \/ RWait(t)
    \/ CDial(t) \/ CDialFail(t) \/ CHandshake(t) \/ CConfig(t)
    \/ RPending(t) \/ RPush(t)

Next ==
    \/ Send
    \/ SetEventsHandler
    \/ AppConnect
    \/ \E dc \in DcIds : AppReconnect(dc)
    \/ LoggedStart \/ LoggedRetry \/ LoggedReturn
    \/ \E t \in Threads : ThreadStep(t)
    \/ \E w \in Workers : WorkerStep(w)

Spec == Init /\ [][Next]_vars

(***************************************************************************)
(* A client whose first Connect has returned: the handshake was answered   *)
(* with the config, the four workers run and the read worker waits for     *)
(* data.  The specifications below start there, each with the part of the  *)
(* environment (callers, server, failures) that its properties are about.  *)
(***************************************************************************)
Handshaken ==
    [msgID |-> 1, seqNo |-> 1, msg |-> Leaf("invokeWithLayer", 0, 0), resp |-> FALSE,
     needAck |-> TRUE, val |-> "config", delivered |-> 1]

Established ==
    /\ conn = "open"
    /\ encryptionReady = TRUE
    /\ session = [DcID |-> DefaultDc, Addr |-> 0, ServerSalt |-> 0]
    /\ store = [saved |-> TRUE, ServerSalt |-> 0, Addr |-> 0]
    /\ dcOptions = ServerDcs
    /\ handleEvent = FALSE
    /\ extSendQueue = <<>>
    /\ sendQueue = <<>>
    /\ routinesStop = 0
    /\ routinesWG = ROUTINES_COUNT
    /\ mutex = 0
    /\ reconnSemaphore = 0
    /\ packets = <<Handshaken>>
    /\ msgsByID = {}
    /\ lastMsgId = 1
    /\ lastSeqNo = 2
    /\ threads = [t \in Threads |->
                    IF t = APP
                    THEN [IdleThread EXCEPT !.op = "connect", !.pc = "done", !.hs = 1]
                    ELSE IdleThread]
    /\ spawned = 0
    /\ workers = [w \in Workers |->
                    IF w > ROUTINES_COUNT THEN NoWorker
                    ELSE IF TypeOf(w) = "read" THEN [Started EXCEPT !.pc = "read"]
                    ELSE Started]
    /\ unsent = <<>>
    /\ moving = <<>>
    /\ written = {1}
    /\ events = {}

\* the msg_ids of the pending table that the server has received, and those
\* of them that name a request (the server answers a request with an
\* rpc_result)
PendingIds == {packets[p].msgID : p \in msgsByID \cap written}
RequestIds ==
    {packets[p].msgID : p \in {q \in msgsByID \cap written :
                                  packets[q].msg.t \in {"request", "invokeWithLayer"}}}

(***************************************************************************)
(* SpecD: the dispatcher.  The server sends every kind of object, alone    *)
(* and in containers, with even and odd seq_no.                            *)
(***************************************************************************)
InboundD ==
    LET ids == PendingIds \cup {0}
        top == {TL_MT_message(1, q, d) : q \in {0, 1}, d \in Objects(ids)}
        first == {TL_MT_message(2, 1, TL_ping(1)), TL_MT_message(2, 0, TL_pong(0, 0))}
    IN top \cup {TL_MT_message(1, q, TL_msg_container(<<a, TL_MT_message(3, 1, d)>>)) :
                    q \in {0, 1}, a \in first, d \in Objects(ids)}

InitD ==
    /\ Established
    /\ budget = [fail |-> MaxFail, connFail |-> MaxConnFail, appOps |-> MaxAppOps,
                 hs |-> 1, pk |-> MaxPackets - 3]

WorkerStepD(w) ==
    \/ SendLoop(w) \/ SendPacket(w)
    \/ ReadLoop(w) \/ ReadData(w, InboundD)
    \/ ProcSalt(w) \/ ProcResend(w) \/ ProcPushing(w) \/ ProcClear(w)
    \/ ProcAcked(w) \/ ProcPush(w) \/ ProcEvent(w)

NextD ==
    \/ SetEventsHandler
    \/ \E w \in Workers : WorkerStepD(w)

SpecD == InitD /\ [][NextD]_vars

(***************************************************************************)
(* SpecP: the pending table.  Callers send requests, the ping worker       *)
(* pings, and the server answers, acknowledges, rejects and rotates the    *)
(* salt for what is pending.                                               *)
(***************************************************************************)
InboundP ==
    {TL_MT_message(1, 0, d) : d \in
        {TL_rpc_result(i, Leaf("data", 0, 0)) : i \in RequestIds}
        \cup {TL_msgs_ack(<<i>>) : i \in PendingIds}
        \cup {Leaf("bad_msg_notification", i, 0) : i \in PendingIds}
        \cup {Leaf("msgs_state_info", i, 0) : i \in PendingIds}
        \cup {TL_bad_server_salt(i, s) : i \in PendingIds, s \in Salts}}

InitP ==
    /\ Established
    /\ budget = [fail |-> MaxFail, connFail |-> MaxConnFail, appOps |-> MaxAppOps,
                 hs |-> 1, pk |-> MaxPackets - 3]

WorkerStepP(w) ==
    \/ TransferLoop(w) \/ TransferSelect(w) \/ TransferPush(w)
    \/ PingTimer(w) \/ PingPush(w)
    \/ SendLoop(w) \/ SendPacket(w)
    \/ ReadLoop(w) \/ ReadData(w, InboundP)
    \/ ProcSalt(w) \/ ProcResend(w) \/ ProcPushing(w) \/ ProcClear(w)
    \/ ProcAcked(w)

NextP ==
    \/ Send
    \/ \E w \in Workers : WorkerStepP(w)

SpecP == InitP /\ [][NextP]_vars

(***************************************************************************)
(* SpecR: one I/O failure of a worker and the reconnect that               *)
(* reconnectLogged runs for it, with requests and pings pending.           *)
(***************************************************************************)
InboundR ==
    {TL_MT_message(1, 0, d) : d \in
        {TL_rpc_result(i, Leaf(o, 0, 0)) : i \in RequestIds, o \in {"config", "data"}}
        \cup {TL_msgs_ack(<<i>>) : i \in PendingIds}}

InitR ==
    /\ Established
    /\ budget = [fail |-> MaxFail - 1, connFail |-> MaxConnFail, appOps |-> MaxAppOps,
                 hs |-> 1, pk |-> MaxPackets - 2]

WorkerStepR(w) ==
    \/ TransferLoop(w) \/ TransferSelect(w) \/ TransferPush(w)
    \/ PingLoop(w) \/ PingTimer(w) \/ PingPush(w)
    \/ SendLoop(w) \/ SendPacket(w) \/ SendFail(w)
    \/ ReadLoop(w) \/ ReadData(w, InboundR) \/ ReadFail(w) \/ ReadClosed(w)
    \/ ProcClear(w) \/ ProcAcked(w)

ThreadStepR(t) ==
    \/ RStop(t) \/ RClose(t) \/ RWait(t)
    \/ CDial(t) \/ CHandshake(t) \/ CConfig(t)
    \/ RPending(t) \/ RPush(t)

NextR ==
    \/ Send
    \/ LoggedStart \/ LoggedRetry \/ LoggedReturn
    \/ ThreadStepR(AUTO)
    \/ \E w \in Workers : WorkerStepR(w)

SpecR == InitR /\ [][NextR]_vars

(***************************************************************************)
(* SpecA: the application calls Reconnect, or Auth migrates, while a       *)
(* worker may fail; no caller sends.                                       *)
(***************************************************************************)
InboundA ==
    {TL_MT_message(1, 0, TL_rpc_result(i, Leaf("config", 0, 0))) : i \in PendingIds}

InitA ==
    /\ Established
    /\ budget = [fail |-> MaxFail - 1, connFail |-> MaxConnFail - 1, appOps |-> 0,
                 hs |-> 1, pk |-> MaxPackets]

WorkerStepA(w) ==
    \/ TransferLoop(w) \/ TransferSelect(w)
    \/ PingLoop(w)
    \/ SendLoop(w) \/ SendPacket(w) \/ SendFail(w)
    \/ ReadLoop(w) \/ ReadData(w, InboundA) \/ ReadFail(w) \/ ReadClosed(w)
    \/ ProcClear(w)

NextA ==
    \/ \E dc \in DcIds : AppReconnect(dc)
    \/ LoggedStart \/ LoggedRetry \/ LoggedReturn
    \/ \E t \in Threads : ThreadStep(t)
    \/ \E w \in Workers : WorkerStepA(w)

SpecA == InitA /\ [][NextA]_vars

(***************************************************************************)
(* Properties of the reconnect (SpecR)                                     *)
(***************************************************************************)
\* reconnectToDc has returned nil in goroutine t
Reconnected(t) == threads[t].pc = "done" /\ threads[t].op \in {"reconnect", "logged"}

\* x = <<msg_id, seq_no>> is carried by a packet on the internal queue
OnQueue(x) ==
    \E i \in DOMAIN sendQueue :
        <<packets[sendQueue[i]].msgID, packets[sendQueue[i]].seqNo>> = x

\* the packet with msg_id x[1] got its response and is not in the table
Completed(x) ==
    \E p \in DOMAIN packets :
        packets[p].msgID = x[1] /\ packets[p].delivered > 0 /\ p \notin msgsByID

\* C1 as stated: at the step with which reconnectToDc returns nil, every id
\* of its snapshot is completed (response delivered, out of the table) or is
\* on the internal queue again with the msg_id and seq_no it had.
C1_CompletedOrOnQueue ==
    [][\A t \in Threads :
          ~Reconnected(t) /\ Reconnected(t)'
              => \A x \in threads[t].pendingIDs : Completed(x)' \/ OnQueue(x)']_vars

\* C1, amended: when reconnectToDc has returned nil, every id of its snapshot
\* has left the pending table through the dispatcher (answered, or acknowledged
\* when nobody waits for a response) or its packet was put on the internal
\* queue again with the msg_id and seq_no it had, where the send worker may
\* already have taken it.
C1_SettledOrRequeued ==
    \A t \in Threads :
        Reconnected(t) => \A x \in threads[t].pendingIDs : x[1] \in threads[t].settled

\* a reconnect has returned with one id of its snapshot completed and another
\* on the internal queue again
C1_Witness ==
    \E t \in Threads :
        /\ Reconnected(t)
        /\ \E x, y \in threads[t].pendingIDs : x # y /\ Completed(x) /\ OnQueue(y)

RECURSIVE OddIds(_)
RECURSIVE OddIdsOf(_)
OddIdsOf(items) ==
    IF items = <<>> THEN <<>> ELSE OddIds(Head(items)) \o OddIdsOf(Tail(items))

OddIds(m) ==
    (IF m.data.t = "msg_container" THEN OddIdsOf(m.data.sub) ELSE <<>>)
    \o (IF m.seqNo % 2 = 1 THEN <<m.msgID>> ELSE <<>>)

Count(id, seq) == Cardinality({i \in DOMAIN seq : seq[i] = id})

\* the msgs_ack packets naming id that the read worker w has put on the
\* internal queue for the message it read, and those it has yet to put there
AcksQueued(w, id) ==
    Cardinality({p \in workers[w].acks : packets[p].msg = TL_msgs_ack(<<id>>)})
AcksToQueue(w, id) ==
    Cardinality({i \in DOMAIN workers[w].ops :
                    /\ workers[w].ops[i].op = "push"
                    /\ workers[w].ops[i].msg = TL_msgs_ack(<<id>>)})

\* C2: for the message the read worker has read, the dispatcher puts on the
\* internal queue one msgs_ack of exactly its msg_id for the message and for
\* each item of a container that has an odd seq_no, and no msgs_ack for one
\* with an even seq_no; an rpc_result adds none for its inner object.
C2_OneAckPerOddMessage ==
    \A w \in Workers :
        workers[w].pc \in {"process", "loop"} /\ TypeOf(w) = "read" =>
            /\ \A id \in 0 .. 3 :
                  AcksQueued(w, id) + AcksToQueue(w, id) = Count(id, OddIds(workers[w].cur))
            /\ \A p \in workers[w].acks :
                  \E id \in 1 .. 3 : packets[p].msg = TL_msgs_ack(<<id>>)

\* process has returned for a container with an odd seq_no whose last item is
\* an rpc_result with an odd seq_no: two msgs_ack were put on the queue
C2_Witness ==
    \E w \in Workers :
        /\ workers[w].pc = "loop"
        /\ workers[w].cur.seqNo = 1
        /\ workers[w].cur.data.t = "msg_container"
        /\ workers[w].cur.data.sub[1].seqNo = 0
        /\ workers[w].cur.data.sub[2].data.t = "rpc_result"
        /\ Cardinality(workers[w].acks) = 2

(***************************************************************************)
(* Properties of the pending table (SpecP)                                 *)
(***************************************************************************)
\* packet p, which awaits a response, is taken out of the pending table
Removed(p) == p \in msgsByID /\ packets[p].resp /\ p \notin msgsByID'

\* the read worker w is at the clearPacketData of an object of kind k that
\* names packet p
Clearing(w, p, k) ==
    /\ Processing(w, "clear")
    /\ workers[w].ops[1].a = packets[p].msgID
    /\ workers[w].cur.data.t = k

\* C4 as stated: a packet that awaits a response leaves the pending table
\* only when an rpc_result whose req_msg_id is its msg_id is processed.
C4_OnlyRpcResultRemoves ==
    [][\A p \in DOMAIN packets :
          Removed(p) => \E w \in Workers : Clearing(w, p, "rpc_result")]_vars

\* C4, amended: a packet that awaits a response leaves the pending table only
\* when an rpc_result, a bad_msg_notification or a msgs_state_info naming its
\* msg_id is processed, which completes it with that object, or when a
\* bad_server_salt is processed, which takes every packet out of the table to
\* put it on the internal queue again; a msgs_ack does not remove it.
C4_OnlyCompletionOrResendRemoves ==
    [][\A p \in DOMAIN packets :
          Removed(p) =>
              \E w \in Workers :
                  \/ /\ \E k \in {"rpc_result", "bad_msg_notification", "msgs_state_info"} :
                            Clearing(w, p, k)
                     /\ packets'[p].delivered = 1
                     /\ packets'[p].val = workers[w].ops[1].v
                  \/ /\ Processing(w, "resend")
                     /\ p \in workers'[w].push]_vars

\* a msgs_ack that names a recorded request was processed, and the request
\* is still in the pending table, awaiting its response
C4_Witness ==
    \E w \in Workers, p \in msgsByID :
        /\ workers[w].pc = "loop"
        /\ workers[w].cur.data.t = "msgs_ack"
        /\ workers[w].cur.data.ids = <<packets[p].msgID>>
        /\ packets[p].resp
        /\ ~packets[p].needAck

(***************************************************************************)
(* Properties of concurrent reconnects (SpecA)                             *)
(***************************************************************************)
\* goroutine t is inside reconnectToDc
InReconnect(t) ==
    /\ threads[t].op \in {"reconnect", "logged"}
    /\ threads[t].pc \in {"stop", "close", "wait", "connect", "handshake",
                          "config", "pending", "pushing"}

Running(type) == {w \in Workers : TypeOf(w) = type /\ workers[w].pc # "none"}

\* C5: at most one execution of the reconnect procedure is in progress,
\* whether reconnectLogged, Reconnect or the migration of Auth started it.
C5_OneReconnectAtATime == Cardinality({t \in Threads : InReconnect(t)}) <= 1

\* the application's Reconnect and reconnectLogged both push stop tokens
C5_Witness ==
    /\ threads[APP].op = "reconnect" /\ threads[APP].pc = "stop"
    /\ threads[AUTO].op = "logged" /\ threads[AUTO].pc = "stop"

\* C6: at most one send worker and at most one read worker run at any moment.
C6_OneSendOneRead ==
    /\ Cardinality(Running("send")) <= 1
    /\ Cardinality(Running("read")) <= 1

\* C10: the packet handed to the socket is the one that left the internal
\* queue first, and the packet moved to the internal queue is the one that
\* left the external queue first.
C10_QueueOrder ==
    [][/\ Len(unsent') < Len(unsent) => unsent' = Tail(unsent)
       /\ Len(moving') < Len(moving) => moving' = Tail(moving)]_vars

(***************************************************************************)
(* FairSpecF: I/O failures of workers and the reconnects of                *)
(* reconnectLogged, where connects and handshakes succeed.  Every          *)
(* goroutine that can take a step eventually takes one, and the server     *)
(* answers.                                                                *)
(***************************************************************************)
InitF ==
    /\ Established
    /\ budget = [fail |-> 0, connFail |-> MaxConnFail, appOps |-> MaxAppOps,
                 hs |-> 1, pk |-> MaxPackets - 1]

WorkerRuns(w) ==
    \/ TransferLoop(w) \/ TransferSelect(w)
    \/ PingLoop(w) \/ PingTimer(w) \/ PingPush(w)
    \/ SendLoop(w) \/ SendPacket(w)
    \/ ReadLoop(w) \/ ReadData(w, InboundA) \/ ReadClosed(w)
    \/ ProcClear(w)

WorkerFails(w) == SendFail(w) \/ ReadFail(w)

NextF ==
    \/ LoggedStart \/ LoggedReturn
    \/ ThreadStepR(AUTO)
    \/ \E w \in Workers : WorkerRuns(w) \/ WorkerFails(w)

FairnessF ==
    /\ \A w \in Workers : WF_vars(WorkerRuns(w))
    /\ WF_vars(ThreadStepR(AUTO))
    /\ WF_vars(LoggedStart)
    /\ WF_vars(LoggedReturn)

FairSpecF == InitF /\ [][NextF]_vars /\ FairnessF

\* a send, a read, a transfer and a ping worker run on an open connection
AllRunning ==
    /\ conn = "open"
    /\ \A type \in {"send", "read", "transfer", "ping"} : Running(type) # {}

\* C7: whenever a send or read worker has exited on an I/O error that is not
\* a closed-connection error (its reconnectLogged is started), eventually
\* the four workers all run again on an open connection.
C7_WorkersRunAgain == (spawned > 0) ~> AllRunning

\* a worker of the connection that a reconnect is establishing has failed
C7_Witness ==
    /\ spawned > 0
    /\ threads[AUTO].pc \in {"handshake", "config"}

(***************************************************************************)
(* FairSpecG: one I/O failure of a worker and the attempts of              *)
(* reconnectLogged, of which one may fail in Close or in the dial and any  *)
(* may get a wrong answer to its handshake.                                *)
(***************************************************************************)
InitG ==
    /\ Established
    /\ budget = [fail |-> MaxFail - 1, connFail |-> MaxConnFail - 1,
                 appOps |-> MaxAppOps, hs |-> 1, pk |-> MaxPackets - 1]

WorkerRunsG(w) ==
    \/ TransferLoop(w) \/ TransferSelect(w)
    \/ PingLoop(w) \/ PingTimer(w) \/ PingPush(w)
    \/ SendLoop(w) \/ SendPacket(w)
    \/ ReadLoop(w) \/ ReadData(w, InboundR) \/ ReadClosed(w)
    \/ ProcClear(w) \/ ProcAcked(w)

NextG ==
    \/ LoggedStart \/ LoggedRetry \/ LoggedReturn
    \/ ThreadStepR(AUTO) \/ RCloseFail(AUTO) \/ CDialFail(AUTO)
    \/ \E w \in Workers : WorkerRunsG(w) \/ WorkerFails(w)

FairnessG ==
    /\ \A w \in Workers : WF_vars(WorkerRunsG(w))
    /\ WF_vars(ThreadStepR(AUTO))
    /\ WF_vars(LoggedStart)
    /\ WF_vars(LoggedRetry)
    /\ WF_vars(LoggedReturn)

FairSpecG == InitG /\ [][NextG]_vars /\ FairnessG

\* C8: reconnectLogged gives m.reconnSemaphore back only when an attempt has
\* returned nil; after a failed attempt its next step is another attempt,
\* with the semaphore still held; and a failed attempt is always followed by
\* another attempt.
C8_RetriesUntilSuccess ==
    /\ [][/\ reconnSemaphore' < reconnSemaphore => threads[AUTO].pc = "done"
          /\ threads[AUTO].pc = "failed" /\ threads'[AUTO].pc # "failed"
                => /\ threads'[AUTO].pc = "stop"
                   /\ threads'[AUTO].op = "logged"
                   /\ reconnSemaphore' = 1]_vars
    /\ (threads[AUTO].pc = "failed") ~> (threads[AUTO].pc = "stop")

\* reconnectLogged, one of whose attempts failed in Close or in the dial, has
\* had an attempt succeed and still holds the semaphore
C8_Witness ==
    /\ threads[AUTO].op = "logged"
    /\ threads[AUTO].pc = "done"
    /\ budget.connFail = MaxConnFail
    /\ reconnSemaphore = 1

(***************************************************************************)
(* FairSpecS: salt rotation.  Two requests are in flight (sent, recorded   *)
(* in the pending table, not answered yet); callers send more, and the     *)
(* server rotates the salt and answers.  Every worker that can take a step *)
(* eventually takes one, and the server eventually answers a request that  *)
(* it keeps receiving.                                                     *)
(***************************************************************************)
InFlight(id) ==
    [msgID |-> id, seqNo |-> 2 * id - 1, msg |-> Leaf("request", 0, 0), resp |-> TRUE,
     needAck |-> TRUE, val |-> "none", delivered |-> 0]

InitS ==
    /\ conn = "open"
    /\ encryptionReady = TRUE
    /\ session = [DcID |-> DefaultDc, Addr |-> 0, ServerSalt |-> 0]
    /\ store = [saved |-> TRUE, ServerSalt |-> 0, Addr |-> 0]
    /\ dcOptions = ServerDcs
    /\ handleEvent = FALSE
    /\ extSendQueue = <<>>
    /\ sendQueue = <<>>
    /\ routinesStop = 0
    /\ routinesWG = ROUTINES_COUNT
    /\ mutex = 0
    /\ reconnSemaphore = 0
    /\ packets = <<Handshaken, InFlight(2), InFlight(3)>>
    /\ msgsByID = {2, 3}
    /\ lastMsgId = 3
    /\ lastSeqNo = 6
    /\ threads = [t \in Threads |->
                    IF t = APP
                    THEN [IdleThread EXCEPT !.op = "connect", !.pc = "done", !.hs = 1]
                    ELSE IdleThread]
    /\ spawned = 0
    /\ workers = [w \in Workers |->
                    IF w > ROUTINES_COUNT THEN NoWorker
                    ELSE IF TypeOf(w) = "read" THEN [Started EXCEPT !.pc = "read"]
                    ELSE Started]
    /\ unsent = <<>>
    /\ moving = <<>>
    /\ written = {1, 2, 3}
    /\ events = {}
    /\ budget = [fail |-> MaxFail, connFail |-> MaxConnFail, appOps |-> MaxAppOps,
                 hs |-> 1, pk |-> MaxPackets - 2]

InboundS ==
    {TL_MT_message(1, 0, d) : d \in
        {TL_rpc_result(i, Leaf("data", 0, 0)) : i \in RequestIds}
        \cup {TL_bad_server_salt(i, 1) : i \in RequestIds}}

WorkerRunsS(w) ==
    \/ TransferLoop(w) \/ TransferSelect(w) \/ TransferPush(w)
    \/ SendLoop(w) \/ SendPacket(w)
    \/ ReadLoop(w) \/ ReadData(w, InboundS)
    \/ ProcSalt(w) \/ ProcResend(w) \/ ProcPushing(w) \/ ProcClear(w)

\* the server answers the request of packet p
Answer(p) ==
    \E w \in Workers :
        ReadData(w, {TL_MT_message(1, 0, TL_rpc_result(packets[p].msgID, Leaf("data", 0, 0)))
                        : q \in {p} \cap msgsByID \cap written})

NextS ==
    \/ Send
    \/ \E w \in Workers : WorkerRunsS(w)

FairnessS ==
    /\ \A w \in Workers : WF_vars(WorkerRunsS(w))
    /\ \A p \in 2 .. (MaxPackets + 1) : SF_vars(p \in DOMAIN packets /\ Answer(p))

FairSpecS == InitS /\ [][NextS]_vars /\ FairnessS

\* the dispatcher is at its first step for a bad_server_salt that names the
\* in-flight request of packet p
SaltFor(w, p) ==
    /\ Processing(w, "salt")
    /\ workers[w].cur.data.t = "bad_server_salt"
    /\ workers[w].cur.data.a = packets[p].msgID
    /\ p \in msgsByID
    /\ packets[p].resp

\* C9: when the dispatcher processes bad_server_salt with salt S for an
\* in-flight request M, the session's salt becomes S and the session is
\* saved; resendPendingPackets takes every packet out of the pending table
\* and they all reach the internal queue; and M is eventually completed with
\* the response to the request.
C9_SaltRotation ==
    /\ [][\A w \in Workers :
            Processing(w, "salt") /\ ~Processing(w, "salt")'
                => /\ session'.ServerSalt = workers[w].ops[1].a
                   /\ store'.saved /\ store'.ServerSalt = workers[w].ops[1].a]_vars
    /\ [][\A w \in Workers :
            Processing(w, "resend") /\ ~Processing(w, "resend")'
                => msgsByID' = {} /\ workers'[w].push = msgsByID]_vars
    /\ \A w \in Workers :
          Processing(w, "pushing") ~> ~Processing(w, "pushing")
    /\ \A w \in Workers, p \in 2 .. 3 :
          SaltFor(w, p) ~> (packets[p].delivered = 1 /\ packets[p].val = "data")

\* the dispatcher holds the mutex to push the packets it took out of the
\* table, the internal queue is full, and the send worker waits for the mutex
C9_Witness ==
    \E w, v \in Workers :
        /\ Processing(w, "pushing")
        /\ Len(sendQueue) = IntCap
        /\ TypeOf(v) = "send" /\ workers[v].pc = "send"

(***************************************************************************)
(* FairSpecQ: the two queues.  A caller sends packets, the transfer worker *)
(* moves them and the send worker writes them; a worker that can take a    *)
(* step eventually takes one, and the server answers the requests.  The   *)
(* send worker is paused in the states where it has not taken a packet.   *)
(***************************************************************************)
InitQ ==
    /\ Established
    /\ budget = [fail |-> MaxFail, connFail |-> MaxConnFail, appOps |-> MaxAppOps,
                 hs |-> 1, pk |-> 0]

\* the server answers the requests it has received
InboundQ ==
    {TL_MT_message(1, 0, TL_rpc_result(i, Leaf("data", 0, 0))) : i \in RequestIds}

WorkerRunsQ(w) ==
    \/ TransferLoop(w) \/ TransferSelect(w) \/ TransferPush(w)
    \/ SendLoop(w) \/ SendPacket(w)
    \/ ReadLoop(w) \/ ReadData(w, InboundQ) \/ ProcClear(w)

NextQ ==
    \/ Send
    \/ \E w \in Workers : WorkerRunsQ(w)

FairnessQ == \A w \in Workers : WF_vars(WorkerRunsQ(w))

FairSpecQ == InitQ /\ [][NextQ]_vars /\ FairnessQ

\* the send worker has not taken a packet from the internal queue
Paused ==
    /\ unsent = <<>>
    /\ written = {1}
    /\ \A w \in Workers : TypeOf(w) = "send" => workers[w].pc \in {"none", "loop"}

\* the enqueues of Send that have completed
Enqueued == Len(packets) - 1

\* C11 as stated: while the send worker is paused the caller is blocked at
\* enqueue number cap(extSendQueue) + 1 (the 3rd with an external queue of 2),
\* so no more than cap(extSendQueue) enqueues complete; once the send worker
\* runs, every packet enqueued is eventually sent.
C11_BlockedAtExtCapPlusOne ==
    /\ [](Paused => Enqueued <= ExtCap)
    /\ \A p \in 2 .. (MaxPackets + 1) : (p \in DOMAIN packets) ~> (p \in written)

\* C11 amended: while the send worker is paused the first cap(extSendQueue)
\* enqueues complete, and the transfer worker moves at most cap(extSendQueue)
\* packets to the internal queue, so at most twice cap(extSendQueue)
\* enqueues complete (the caller is blocked at the 3rd enqueue at the
\* earliest and at the 5th at the latest with queues of 2 and 4); once the
\* send worker runs, every packet enqueued is eventually sent.
C11_BlockedByTwiceExtCap ==
    /\ [](Paused => /\ Enqueued <= 2 * ExtCap
                    /\ Len(sendQueue) + Len(moving) <= ExtCap
                    /\ (Enqueued < ExtCap => ENABLED Send))
    /\ \A p \in 2 .. (MaxPackets + 1) : (p \in DOMAIN packets) ~> (p \in written)

\* the send worker is paused, more than cap(extSendQueue) enqueues have
\* completed and the caller is blocked at the next one
C11_Witness ==
    /\ Paused
    /\ Enqueued = 2 * ExtCap
    /\ Len(extSendQueue) = ExtCap
    /\ budget.pk < MaxPackets

(***************************************************************************)
(* SpecE: the event handler.  Two requests are in flight; the server sends *)
(* updates, results (also results that look like an update) and pings,     *)
(* alone, with an odd seq_no and in containers; the application sets its   *)
(* handler at any time.                                                    *)
(***************************************************************************)
ObjectsE ==
    {Leaf("updateShort", 0, 0), TL_ping(1)}
    \cup {TL_rpc_result(i, Leaf(o, 0, 0)) : i \in RequestIds, o \in {"data", "updateShort"}}

InboundE ==
    {TL_MT_message(1, q, d) : q \in {0, 1}, d \in ObjectsE}
    \cup {TL_MT_message(1, 0, TL_msg_container(
              <<TL_MT_message(2, 0, Leaf("updateShort", 0, 0)), TL_MT_message(3, 0, d)>>)) :
          d \in ObjectsE}

WorkerStepE(w) ==
    \/ SendLoop(w) \/ SendPacket(w)
    \/ ReadLoop(w) \/ ReadData(w, InboundE)
    \/ ProcClear(w) \/ ProcPush(w) \/ ProcEvent(w)

NextE ==
    \/ SetEventsHandler
    \/ \E w \in Workers : WorkerStepE(w)

SpecE == InitS /\ [][NextE]_vars

\* the tags that process has a case for
ProtocolTags ==
    {"msg_container", "bad_server_salt", "bad_msg_notification", "msgs_state_info",
     "new_session_created", "ping", "pong", "msgs_ack", "rpc_result"}

\* the objects of an inbound object that match no protocol tag and are not
\* the inner result of an rpc_result, in the order they are met
RECURSIVE Unrouted(_)
RECURSIVE UnroutedItems(_)
UnroutedItems(items) ==
    IF items = <<>> THEN <<>>
    ELSE Unrouted(Head(items).data) \o UnroutedItems(Tail(items))

Unrouted(d) ==
    IF d.t = "msg_container" THEN UnroutedItems(d.sub)
    ELSE IF d.t \in ProtocolTags THEN <<>>
    ELSE <<d.t>>

\* the objects that the dispatcher steps of a list pass to the handler
RECURSIVE Passed(_)
Passed(ops) ==
    IF ops = <<>> THEN <<>>
    ELSE (IF Head(ops).op = "event" THEN <<Head(ops).v>> ELSE <<>>) \o Passed(Tail(ops))

\* C12: the objects of a message that the dispatcher passes to the event
\* handler are the objects that match no protocol tag and are not the inner
\* result of an rpc_result (none when no handler is set); the handler is
\* invoked by those steps only, and the step that delivers an object to a
\* response channel does not invoke it.
C12_HandlerOnlyForUnrouted ==
    [][/\ \A w \in Workers :
            workers[w].pc = "read" /\ workers'[w].pc # "read"
                => Passed(workers'[w].ops) =
                      IF handleEvent THEN Unrouted(workers'[w].cur.data) ELSE <<>>
       /\ events' # events
            => \E w \in Workers :
                  /\ Processing(w, "event")
                  /\ events' = events \cup {workers[w].ops[1].v}
                  /\ packets' = packets
       /\ \A p \in DOMAIN packets :
            packets'[p].delivered # packets[p].delivered => events' = events]_vars

\* a result that looks like an update was delivered to the channel of its
\* request while a handler was set, and the handler was not invoked
C12_Witness ==
    /\ handleEvent
    /\ events = {}
    /\ \E p \in DOMAIN packets :
          packets[p].delivered = 1 /\ packets[p].val = "updateShort"

(***************************************************************************)
(* Auth, run by the application's goroutine after Connect.  The thread     *)
(* record also holds the calls made to the AuthDataProvider (asked), the   *)
(* request being sent (step), its packet (req) and the number of           *)
(* migrations so far.  An rpc_error is named by its ErrorMessage.          *)
(***************************************************************************)
RpcErrors ==
    {"PHONE_MIGRATE_1", "NETWORK_MIGRATE_1", "PHONE_MIGRATE_3",
     "SESSION_PASSWORD_NEEDED", "FLOOD_WAIT"}

\* x.ErrorCode
ErrorCode(x) ==
    CASE x \in {"PHONE_MIGRATE_1", "NETWORK_MIGRATE_1", "PHONE_MIGRATE_3"} -> 303
      [] x = "SESSION_PASSWORD_NEEDED" -> 401
      [] OTHER -> 420

TL_ErrSeeOther == 303

\* fmt.Sscanf(x.ErrorMessage, "PHONE_MIGRATE_%d", &newDc) and, when that
\* reads nothing, fmt.Sscanf(x.ErrorMessage, "NETWORK_MIGRATE_%d", &newDc)
ScanMigrate(x) ==
    CASE x = "PHONE_MIGRATE_1" -> [n |-> 1, newDc |-> 1]
      [] x = "PHONE_MIGRATE_3" -> [n |-> 1, newDc |-> 3]
      [] x = "NETWORK_MIGRATE_1" -> [n |-> 1, newDc |-> 1]
      [] OTHER -> [n |-> 0, newDc |-> 0]

\* IsError(x, "SESSION_PASSWORD_NEEDED")
IsError(x, text) == x \in RpcErrors /\ x = text

AuthRequests ==
    {"auth_sendCode", "auth_signIn", "account_getPassword", "auth_checkPassword"}

AuthThread ==
    [pc |-> "phone", op |-> "auth", newDc |-> 0, i |-> 0, pendingIDs |-> {}, hs |-> 1,
     toPush |-> {}, settled |-> {}, asked |-> <<>>, step |-> "none", req |-> 0,
     migrations |-> 0]

\* the application calls Auth when Connect has returned
AuthStart ==
    /\ threads[APP].pc = "done" /\ threads[APP].op = "connect"
    /\ threads' = [threads EXCEPT ![APP] = AuthThread]
    /\ UNCHANGED <<conn, encryptionReady, session, store, dcOptions, handleEvent,
                   extSendQueue, sendQueue, routinesStop, routinesWG, mutex,
                   reconnSemaphore, packets, msgsByID, lastMsgId, lastSeqNo,
                   spawned, workers, unsent, moving, written, events, budget>>

\* authData.PhoneNumber(), authData.Code(), authData.Password(): the call
\* returns a string, or an error and Auth returns it
AuthAsk ==
    LET a == threads[APP] IN
    /\ a.op = "auth" /\ a.pc \in {"phone", "code", "password"}
    /\ \/ threads' = [threads EXCEPT
             ![APP].asked = Append(@, a.pc),
             ![APP].pc = "send",
             ![APP].step = CASE a.pc = "phone" -> "auth_sendCode"
                             [] a.pc = "code" -> "auth_signIn"
                             [] OTHER -> "auth_checkPassword"]
       \/ threads' = [threads EXCEPT ![APP].asked = Append(@, a.pc),
                                     ![APP].pc = "failed"]
    /\ UNCHANGED <<conn, encryptionReady, session, store, dcOptions, handleEvent,
                   extSendQueue, sendQueue, routinesStop, routinesWG, mutex,
                   reconnSemaphore, packets, msgsByID, lastMsgId, lastSeqNo,
                   spawned, workers, unsent, moving, written, events, budget>>

\* m.SendSync(...): m.extSendQueue <- newPacket(msg, resp)
AuthSend ==
    LET a == threads[APP] IN
    /\ a.op = "auth" /\ a.pc = "send"
    /\ Len(extSendQueue) < ExtCap
    /\ budget.pk < MaxPackets
    /\ budget' = [budget EXCEPT !.pk = @ + 1]
    /\ packets' = Append(packets, newPacket(Leaf(a.step, 0, 0), TRUE))
    /\ extSendQueue' = Append(extSendQueue, Len(packets) + 1)
    /\ threads' = [threads EXCEPT ![APP].pc = "recv", ![APP].req = Len(packets) + 1]
    /\ UNCHANGED <<conn, encryptionReady, session, store, dcOptions, handleEvent,
                   sendQueue, routinesStop, routinesWG, mutex, reconnSemaphore,
                   msgsByID, lastMsgId, lastSeqNo, spawned, workers, unsent,
                   moving, written, events>>

\* what Auth does with the response x to the request of its step
AuthNext(a, x) ==
    CASE a.step = "auth_sendCode" ->
            IF x = "auth_sentCode" THEN [a EXCEPT !.pc = "code"]
            ELSE IF x \in RpcErrors
            THEN IF ErrorCode(x) # TL_ErrSeeOther THEN [a EXCEPT !.pc = "failed"]
                 ELSE IF ScanMigrate(x).n # 1 THEN [a EXCEPT !.pc = "failed"]
                 ELSE [a EXCEPT !.pc = "stop", !.newDc = ScanMigrate(x).newDc,
                                !.i = 0, !.pendingIDs = {}, !.toPush = {},
                                !.settled = {}, !.migrations = @ + 1]
            ELSE [a EXCEPT !.pc = "failed"]
      [] a.step = "auth_signIn" ->
            IF IsError(x, "SESSION_PASSWORD_NEEDED")
            THEN [a EXCEPT !.pc = "send", !.step = "account_getPassword"]
            ELSE IF x = "auth_authorization" THEN [a EXCEPT !.pc = "authed"]
            ELSE [a EXCEPT !.pc = "failed"]
      [] a.step = "account_getPassword" ->
            IF x = "account_password" THEN [a EXCEPT !.pc = "password"]
            ELSE [a EXCEPT !.pc = "failed"]
      [] OTHER ->
            IF x \in RpcErrors THEN [a EXCEPT !.pc = "failed"]
            ELSE IF x = "auth_authorization" THEN [a EXCEPT !.pc = "authed"]
            ELSE [a EXCEPT !.pc = "failed"]

\* return <-resp of SendSync, and the statements up to the next call
AuthRecv ==
    LET a == threads[APP] IN
    /\ a.op = "auth" /\ a.pc = "recv"
    /\ packets[a.req].delivered > 0
    /\ threads' = [threads EXCEPT ![APP] = AuthNext(a, packets[a.req].val)]
    /\ UNCHANGED <<conn, encryptionReady, session, store, dcOptions, handleEvent,
                   extSendQueue, sendQueue, routinesStop, routinesWG, mutex,
                   reconnSemaphore, packets, msgsByID, lastMsgId, lastSeqNo,
                   spawned, workers, unsent, moving, written, events, budget>>

\* m.reconnectToDc(newDc) returned nil: the next round of the loop
AuthResend ==
    /\ threads[APP].op = "auth" /\ threads[APP].pc = "done"
    /\ threads' = [threads EXCEPT ![APP].pc = "send"]
    /\ UNCHANGED <<conn, encryptionReady, session, store, dcOptions, handleEvent,
                   extSendQueue, sendQueue, routinesStop, routinesWG, mutex,
                   reconnSemaphore, packets, msgsByID, lastMsgId, lastSeqNo,
                   spawned, workers, unsent, moving, written, events, budget>>

(***************************************************************************)
(* SpecU: Auth.  The server answers the handshake with the config and a    *)
(* request of Auth with any of the responses Auth distinguishes.           *)
(***************************************************************************)
AuthAnswers ==
    RpcErrors \cup {"auth_sentCode", "account_password", "auth_authorization"}

InboundU ==
    {TL_MT_message(1, 0, TL_rpc_result(packets[p].msgID, Leaf(x, 0, 0))) :
        p \in {q \in msgsByID \cap written : packets[q].msg.t \in AuthRequests},
        x \in AuthAnswers}
    \cup {TL_MT_message(1, 0, TL_rpc_result(packets[p].msgID, Leaf("config", 0, 0))) :
            p \in {q \in msgsByID \cap written : packets[q].msg.t = "invokeWithLayer"}}

InitU ==
    /\ Established
    /\ budget = [fail |-> MaxFail, connFail |-> MaxConnFail, appOps |-> MaxAppOps,
                 hs |-> 1, pk |-> 0]

WorkerStepU(w) ==
    \/ TransferLoop(w) \/ TransferSelect(w) \/ TransferPush(w)
    \/ PingLoop(w) \/ PingTimer(w) \/ PingPush(w)
    \/ SendLoop(w) \/ SendPacket(w)
    \/ ReadLoop(w) \/ ReadData(w, InboundU) \/ ReadClosed(w)
    \/ ProcClear(w)

NextU ==
    \/ AuthStart \/ AuthAsk \/ AuthSend \/ AuthRecv \/ AuthResend
    \/ ThreadStepR(APP)
    \/ \E w \in Workers : WorkerStepU(w)

SpecU == InitU /\ [][NextU]_vars

(***************************************************************************)
(* SpecUF: Auth while a read may fail once, which starts reconnectLogged.  *)
(***************************************************************************)
InitUF ==
    /\ Established
    /\ budget = [fail |-> MaxFail - 1, connFail |-> MaxConnFail, appOps |-> MaxAppOps,
                 hs |-> 1, pk |-> MaxPackets - 2]

\* the server answers SendCode with the migration to DC 1 or with
\* auth_sentCode, and the handshake with the config
InboundUF ==
    {m \in InboundU :
        m.data.sub[1].data.t \in {"config", "auth_sentCode", "PHONE_MIGRATE_1"}}

WorkerStepUF(w) ==
    \/ TransferLoop(w) \/ TransferSelect(w) \/ TransferPush(w)
    \/ PingLoop(w)
    \/ SendLoop(w) \/ SendPacket(w)
    \/ ReadLoop(w) \/ ReadData(w, InboundUF) \/ ReadClosed(w) \/ ReadFail(w)
    \/ ProcClear(w)

NextUF ==
    \/ AuthStart \/ AuthAsk \/ AuthSend \/ AuthRecv \/ AuthResend
    \/ ThreadStepR(APP)
    \/ LoggedStart \/ LoggedReturn
    \/ ThreadStepR(AUTO)
    \/ \E w \in Workers : WorkerStepUF(w)

SpecUF == InitUF /\ [][NextUF]_vars

\* the calls made to the AuthDataProvider
Asked == IF threads[APP].op = "auth" THEN threads[APP].asked ELSE <<>>

\* the provider is asked for what
Asks(what) == Len(Asked') = Len(Asked) + 1 /\ Asked'[Len(Asked')] = what

\* C13: Auth asks the provider for the phone number, then the code, then
\* the password, each once at most.  After a migration error for DC n
\* the session is on DC n when the reconnect has returned and SendCode is
\* sent again, SendCode is written while the session is on DC n, and the
\* code is asked for only when the last SendCode was answered with
\* auth_sentCode.  The password is asked for only when a sign-in was
\* answered with SESSION_PASSWORD_NEEDED.
C13_AuthOrder ==
    /\ [](\E n \in 0 .. 3 : Asked = SubSeq(<<"phone", "code", "password">>, 1, n))
    /\ [][/\ Asks("code")
            => /\ packets[threads[APP].req].msg.t = "auth_sendCode"
               /\ packets[threads[APP].req].val = "auth_sentCode"
               /\ threads[APP].req \in written
          /\ AuthResend
            => /\ session.DcID = threads[APP].newDc
               /\ threads'[APP].step = "auth_sendCode"
          /\ \A p \in written' \ written :
                packets[p].msg.t = "auth_sendCode" /\ threads[APP].migrations > 0
                    => session.DcID = threads[APP].newDc
          /\ Asks("password")
            => \E p \in DOMAIN packets :
                  /\ packets[p].msg.t = "auth_signIn"
                  /\ packets[p].val = "SESSION_PASSWORD_NEEDED"]_vars

\* after a migration to DC 1 SendCode was sent again there and answered,
\* and the provider has been asked for the code
C13_Witness ==
    /\ Asked = <<"phone", "code">>
    /\ threads[APP].migrations = 1
    /\ session.DcID = 1
    /\ packets[threads[APP].req].val = "auth_sentCode"

(***************************************************************************)
(* Properties of a reconnect to an unknown data centre (SpecA)             *)
(***************************************************************************)
\* goroutine t leaves the wait of its reconnectToDc(dc) with dc not in the
\* DC-options table
UnknownDc(t) ==
    /\ threads[t].pc = "wait" /\ threads'[t].pc # "wait"
    /\ threads[t].newDc \notin dcOptions

\* C14: a reconnectToDc to a DC id that is not in m.dcOptions returns an
\* error; the step that finds the id unknown leaves m.session.DcID,
\* m.session.Addr, the connection and the workers as they are, and the
\* reconnect that failed opens no connection and starts no worker.
C14_UnknownDcFails ==
    [][\A t \in Threads :
          /\ UnknownDc(t)
                => /\ threads'[t].pc = "failed"
                   /\ session' = session
                   /\ conn' = conn
                   /\ workers' = workers /\ routinesWG' = routinesWG
          /\ threads[t].pc = "failed" /\ threads[t].op = "reconnect"
                => threads'[t].pc \in {"failed", "stop"}]_vars

\* the application's reconnect to DC 3, which the config does not list,
\* has failed
C14_Witness ==
    /\ threads[APP].pc = "failed"
    /\ threads[APP].newDc \notin dcOptions
    /\ session.DcID = DefaultDc
    /\ conn = "closed" /\ routinesWG = 0
    /\ threads[AUTO].pc = "idle" /\ spawned = 0

(***************************************************************************)
(* DecodeBuf.  A buffer is [buf, off, size, err] with err = "nil" when no  *)
(* error is stored; a reader yields [d, r]: the buffer after the read and  *)
(* the value returned.  Values are [kind, num, seq].                       *)
(***************************************************************************)
Val(kind, num, seq) == [kind |-> kind, num |-> num, seq |-> seq]
Nil == Val("nil", 0, <<>>)
Num(kind, n) == Val(kind, n, <<>>)

\* NewDecodeBuf(b)
NewDecodeBuf(b) == [buf |-> b, off |-> 0, size |-> Len(b), err |-> "nil"]

Failed(d, err, zero) == [d |-> [d EXCEPT !.err = err], r |-> zero]
Skipped(d, zero) == [d |-> d, r |-> zero]

\* the n bytes of m.buf[m.off : m.off+n]; a number is kept as its bytes in
\* little-endian order, which is its value at its width
Raw(d, n) == SubSeq(d.buf, d.off + 1, d.off + n)
Zeros(n) == [i \in 1 .. n |-> 0]

\* the value of binary.LittleEndian.Uint32 over three or four bytes as an
\* int32 (a set top bit makes it negative)
Int32(b) ==
    LET low == b[1] + 256 * b[2] + 65536 * b[3]
                 + (IF Len(b) > 3 THEN 16777216 * (b[4] % 128) ELSE 0)
    IN IF Len(b) > 3 /\ b[4] >= 128 THEN low - 2147483647 - 1 ELSE low

\* a read of a fixed number of bytes that does not look at the error first
FixedUnchecked(d, n, name, kind) ==
    IF d.off + n > d.size THEN Failed(d, name, Val(kind, 0, Zeros(n)))
    ELSE [d |-> [d EXCEPT !.off = @ + n], r |-> Val(kind, 0, Raw(d, n))]

\* Long, Double, Int and UInt: a fixed number of bytes
Fixed(d, n, name, kind) ==
    IF d.err # "nil" THEN Skipped(d, Val(kind, 0, Zeros(n)))
    ELSE IF d.off + n > d.size THEN Failed(d, name, Val(kind, 0, Zeros(n)))
    ELSE [d |-> [d EXCEPT !.off = @ + n], r |-> Val(kind, 0, Raw(d, n))]

Long(d) == Fixed(d, 8, "DecodeLong", "int64")
Double(d) == Fixed(d, 8, "DecodeDouble", "float64")
DecodeInt(d) == Fixed(d, 4, "DecodeInt", "int32")
UInt(d) == Fixed(d, 4, "DecodeUInt", "uint32")

\* Bytes(size)
Bytes(d, size) ==
    IF d.err # "nil" THEN Skipped(d, Nil)
    ELSE IF d.off + size > d.size THEN Failed(d, "DecodeBytes", Nil)
    ELSE [d |-> [d EXCEPT !.off = @ + size], r |-> Val("bytes", 0, Raw(d, size))]

\* (4 - x%4) & 3
Padding(x) == (4 - (x % 4)) % 4

\* StringBytes
StringBytes(d) ==
    IF d.err # "nil" THEN Skipped(d, Nil)
    ELSE IF d.off + 1 > d.size THEN Failed(d, "DecodeStringBytes", Nil)
    ELSE
      LET first == d.buf[d.off + 1]
          d1 == [d EXCEPT !.off = @ + 1]
          long == first = 254
      IN
      IF long /\ d1.off + 3 > d1.size THEN Failed(d1, "DecodeStringBytes", Nil)
      ELSE
        LET size == IF long THEN Int32(Raw(d1, 3)) ELSE first
            padding == IF long THEN Padding(size) ELSE Padding(first + 1)
            d2 == IF long THEN [d1 EXCEPT !.off = @ + 3] ELSE d1
        IN
        IF d2.off + size > d2.size
        THEN Failed(d2, "DecodeStringBytes: Wrong size", Nil)
        ELSE
          LET d3 == [d2 EXCEPT !.off = @ + size]
              x == Val("bytes", 0, Raw(d2, size))
          IN
          IF d3.off + padding > d3.size
          THEN Failed(d3, "DecodeStringBytes: Wrong padding", Nil)
          ELSE [d |-> [d3 EXCEPT !.off = @ + padding], r |-> x]

\* String: string(b), or "" when the error is set
String(d) ==
    LET b == StringBytes(d) IN
    IF b.d.err # "nil" THEN [d |-> b.d, r |-> Val("string", 0, <<>>)]
    ELSE [d |-> b.d, r |-> Val("string", 0, b.r.seq)]

\* BigInt: the bytes behind a zero byte, or nil when the error is set
BigInt(d) ==
    LET b == StringBytes(d) IN
    IF b.d.err # "nil" THEN [d |-> b.d, r |-> Nil]
    ELSE [d |-> b.d, r |-> Val("big", 0, <<0>> \o b.r.seq)]

\* constructor numbers of the TL schema, as the four bytes of a uint32
CRC_vector == <<21, 196, 181, 28>>
CRC_boolFalse == <<55, 151, 121, 188>>
CRC_boolTrue == <<181, 117, 114, 153>>
CRC_msg_container == <<220, 248, 241, 115>>
CRC_rpc_result == <<1, 109, 92, 243>>
CRC_gzip_packed == <<161, 207, 114, 48>>
CRC_pong == <<197, 115, 119, 52>>

\* a call that does not return: the goroutine panics
Panic(d) == [d |-> d, r |-> Val("panic", 0, <<>>)]
Panics(x) == x.r.kind = "panic"

RECURSIVE Object(_)
RECURSIVE Elems(_, _, _, _)
RECURSIVE Items(_, _, _)

\* y := m.Int(), m.Long(), m.String() or m.Object() of a vector reader
Elem(d, kind) ==
    CASE kind = "int32" -> DecodeInt(d)
      [] kind = "int64" -> Long(d)
      [] kind = "string" -> String(d)
      [] OTHER -> Object(d)

\* if m.err != nil { return nil }; x[i] = y; i++
ElemRead(y, n, kind, x) ==
    IF Panics(y) THEN y
    ELSE IF y.d.err # "nil" THEN [d |-> y.d, r |-> Nil]
    ELSE Elems(y.d, n - 1, kind, Append(x, y.r))

\* for i < size { y := ...; ... }
Elems(d, n, kind, x) ==
    IF n <= 0 THEN [d |-> d, r |-> Val("vector", 0, x)]
    ELSE ElemRead(Elem(d, kind), n, kind, x)

\* size := m.Int() of a vector reader and what follows it
VectorSized(size, name, kind) ==
    IF size.d.err # "nil" THEN [d |-> size.d, r |-> Nil]
    ELSE IF Int32(size.r.seq) < 0 THEN Failed(size.d, name \o ": Wrong size", Nil)
    ELSE Elems(size.d, Int32(size.r.seq), kind, <<>>)

\* constructor := m.UInt() of a vector reader and what follows it
VectorBody(c, name, kind) ==
    IF c.d.err # "nil" THEN [d |-> c.d, r |-> Nil]
    ELSE IF c.r.seq # CRC_vector THEN Failed(c.d, name \o ": Wrong constructor", Nil)
    ELSE VectorSized(DecodeInt(c.d), name, kind)

\* VectorInt, VectorLong, VectorString and Vector
VectorOf(d, name, kind) == VectorBody(UInt(d), name, kind)

VectorInt(d) == VectorOf(d, "DecodeVectorInt", "int32")
VectorLong(d) == VectorOf(d, "DecodeVectorLong", "int64")
VectorString(d) == VectorOf(d, "DecodeVectorString", "string")
Vector(d) == VectorOf(d, "DecodeVector", "object")

\* Bool
Bool(d) ==
    LET c == UInt(d) IN
    IF c.d.err # "nil" THEN [d |-> c.d, r |-> Num("bool", 0)]
    ELSE [d |-> c.d, r |-> Num("bool", IF c.r.seq = CRC_boolTrue THEN 1 ELSE 0)]

\* m.ObjectGenerated(constructor): the constructors of the schema, here two
\* without fields and one with two; any other number is an error
ObjectGenerated(d, constructor) ==
    IF constructor \in {CRC_boolTrue, CRC_boolFalse}
    THEN [d |-> d, r |-> Val("tl", 0, <<constructor>>)]
    ELSE IF constructor = CRC_pong
    THEN LET a == Long(d)
             b == Long(a.d)
         IN [d |-> b.d, r |-> Val("tl", 0, <<constructor, a.r, b.r>>)]
    ELSE Failed(d, "Unknown constructor", Nil)

\* arr[i] = TL_MT_message{...}; if m.err != nil { return nil }
ItemRead(id, data, n, arr) ==
    IF Panics(data) THEN data
    ELSE IF data.d.err # "nil" THEN [d |-> data.d, r |-> Nil]
    ELSE Items(data.d, n - 1, Append(arr, Val("message", 0, <<id.r, data.r>>)))

\* TL_MT_message{m.Long(), m.Int(), m.Int(), m.Object()}: the four reads of
\* an item are made also when one of them sets the error, which is looked
\* at after them
Item(id, n, arr) == ItemRead(id, Object(DecodeInt(DecodeInt(id.d).d).d), n, arr)

\* the items of a msg_container
Items(d, n, arr) ==
    IF n <= 0 THEN [d |-> d, r |-> Val("tl", 0, <<CRC_msg_container>> \o arr)]
    ELSE Item(Long(d), n, arr)

\* size := m.Int(); arr := make([]TL_MT_message, size), which panics on a
\* negative size
Container(size) ==
    IF Int32(size.r.seq) < 0 THEN Panic(size.d)
    ELSE Items(size.d, Int32(size.r.seq), <<>>)

\* TL_rpc_result{m.Long(), m.Object()}
RpcResult(id, obj) ==
    IF Panics(obj) THEN obj
    ELSE [d |-> obj.d, r |-> Val("tl", 0, <<CRC_rpc_result, id.r, obj.r>>)]

\* gzip.NewReader and the reads of it: a stream is modelled as the gzip
\* magic byte and the stored bytes behind it; on anything else NewReader
\* returns a nil reader, whose Read panics
IsGzip(b) == Len(b) > 0 /\ b[1] = 31

\* d := NewDecodeBuf(obj); r = d.Object()
Unpacked(packed, inner) ==
    IF Panics(inner) THEN Panic(packed.d) ELSE [d |-> packed.d, r |-> inner.r]

Unpack(packed) ==
    IF ~IsGzip(packed.r.seq) THEN Panic(packed.d)
    ELSE Unpacked(packed, Object(NewDecodeBuf(Tail(packed.r.seq))))

\* switch constructor
Switch(c) ==
    CASE c.r.seq = CRC_msg_container -> Container(DecodeInt(c.d))
      [] c.r.seq = CRC_rpc_result -> RpcResult(Long(c.d), Object(Long(c.d).d))
      [] c.r.seq = CRC_gzip_packed -> Unpack(StringBytes(c.d))
      [] OTHER -> ObjectGenerated(c.d, c.r.seq)

\* if m.err != nil { return nil }; return r
Returned(got) ==
    IF Panics(got) THEN got
    ELSE IF got.d.err # "nil" THEN [d |-> got.d, r |-> Nil]
    ELSE got

\* constructor := m.UInt() of Object and what follows it
ObjectBody(c) ==
    IF c.d.err # "nil" THEN [d |-> c.d, r |-> Nil] ELSE Returned(Switch(c))

\* Object
Object(d) == ObjectBody(UInt(d))

(***************************************************************************)
(* SpecB: a DecodeBuf in the hands of the read worker.  The buffer is one  *)
(* of a set of well-formed and damaged encodings; the readers are called   *)
(* in any order.  The worker's record holds the buffer (dbuf), the reader  *)
(* called last (rd), what it returned (ret) and whether a reader has been  *)
(* called with the error set (again).                                      *)
(***************************************************************************)
MaxBufLen == 3

\* n as k little-endian bytes
Le(n, k) == [i \in 1 .. k |-> IF i > 3 THEN 0 ELSE (n \div (256 ^ (i - 1))) % 256]

SmallBufs == UNION {[1 .. n -> {0, 1, 254}] : n \in 0 .. MaxBufLen}

Encodings ==
    {Le(5, 4) \o Le(7, 4),
     <<255, 255, 255, 255, 255, 255, 255, 255>>,
     <<3, 97, 98, 99>>,
     <<2, 97, 98>>,
     <<5, 97>>,
     <<254, 1, 0, 0, 97, 0, 0, 0>>,
     CRC_vector \o Le(2, 4) \o Le(1, 4) \o Le(2, 4),
     CRC_vector \o Le(2, 4) \o Le(1, 4),
     CRC_vector \o <<255, 255, 255, 255>> \o Le(1, 4),
     CRC_vector \o Le(1, 4) \o <<1, 97, 0, 0>>,
     CRC_vector \o Le(1, 4) \o CRC_boolTrue,
     CRC_boolTrue \o CRC_boolFalse,
     CRC_pong \o Le(1, 8) \o Le(2, 8),
     CRC_pong \o Le(1, 8),
     CRC_rpc_result \o Le(1, 8) \o CRC_boolTrue,
     CRC_gzip_packed \o <<3, 97, 98, 99>>,
     CRC_gzip_packed \o <<5, 31>> \o CRC_boolTrue \o <<0, 0>>,
     CRC_msg_container \o Le(1, 4) \o Le(1, 8) \o Le(1, 4) \o Le(4, 4)
        \o CRC_boolTrue,
     CRC_msg_container \o Le(1, 4) \o Le(1, 8) \o Le(1, 4) \o Le(4, 4)
        \o Le(7, 4) \o Le(1, 8)}

Readers ==
    {"Long", "Double", "Int", "UInt", "Bytes", "StringBytes", "String", "BigInt",
     "VectorInt", "VectorLong", "VectorString", "Vector", "Bool", "Object"}

ByteCounts == {0, 2, 100}

\* the call of a reader (size is the argument of Bytes)
Call(d, reader, size) ==
    CASE reader = "Long" -> Long(d)
      [] reader = "Double" -> Double(d)
      [] reader = "Int" -> DecodeInt(d)
      [] reader = "UInt" -> UInt(d)
      [] reader = "Bytes" -> Bytes(d, size)
      [] reader = "StringBytes" -> StringBytes(d)
      [] reader = "String" -> String(d)
      [] reader = "BigInt" -> BigInt(d)
      [] reader = "VectorInt" -> VectorInt(d)
      [] reader = "VectorLong" -> VectorLong(d)
      [] reader = "VectorString" -> VectorString(d)
      [] reader = "Vector" -> Vector(d)
      [] reader = "Bool" -> Bool(d)
      [] OTHER -> Object(d)

\* the read worker with a DecodeBuf over b
Decoding(b) ==
    [pc |-> "read", pkt |-> 0, ops |-> <<>>, push |-> {}, cur |-> NoMsg, acks |-> {},
     dbuf |-> NewDecodeBuf(b), rd |-> "none", ret |-> Nil, again |-> FALSE]

InitB ==
    /\ conn = "open"
    /\ encryptionReady = TRUE
    /\ session = [DcID |-> DefaultDc, Addr |-> 0, ServerSalt |-> 0]
    /\ store = [saved |-> TRUE, ServerSalt |-> 0, Addr |-> 0]
    /\ dcOptions = ServerDcs
    /\ handleEvent = FALSE
    /\ extSendQueue = <<>>
    /\ sendQueue = <<>>
    /\ routinesStop = 0
    /\ routinesWG = ROUTINES_COUNT
    /\ mutex = 0
    /\ reconnSemaphore = 0
    /\ packets = <<Handshaken>>
    /\ msgsByID = {}
    /\ lastMsgId = 1
    /\ lastSeqNo = 2
    /\ threads = [t \in Threads |->
                    IF t = APP
                    THEN [IdleThread EXCEPT !.op = "connect", !.pc = "done", !.hs = 1]
                    ELSE IdleThread]
    /\ spawned = 0
    /\ \E b \in SmallBufs \cup Encodings :
          workers = [w \in Workers |->
                        IF w > ROUTINES_COUNT THEN NoWorker
                        ELSE IF TypeOf(w) = "read" THEN Decoding(b)
                        ELSE Started]
    /\ unsent = <<>>
    /\ moving = <<>>
    /\ written = {1}
    /\ events = {}
    /\ budget = [fail |-> MaxFail, connFail |-> MaxConnFail, appOps |-> MaxAppOps,
                 hs |-> 1, pk |-> MaxPackets]

\* the read worker calls a reader of its DecodeBuf
Decode(w, reader, size) ==
    LET got == Call(workers[w].dbuf, reader, size) IN
    /\ TypeOf(w) = "read" /\ workers[w].pc = "read"
    /\ ~Panics(got)
    /\ workers' = [workers EXCEPT ![w].dbuf = got.d, ![w].rd = reader, ![w].ret = got.r,
                                  ![w].again = workers[w].dbuf.err # "nil"]
    /\ UNCHANGED <<conn, encryptionReady, session, store, dcOptions, handleEvent,
                   extSendQueue, sendQueue, routinesStop, routinesWG, mutex,
                   reconnSemaphore, packets, msgsByID, lastMsgId, lastSeqNo,
                   threads, spawned, unsent, moving, written, events, budget>>

NextB == \E w \in Workers, reader \in Readers, size \in ByteCounts : Decode(w, reader, size)

SpecB == InitB /\ [][NextB]_vars

\* the zero value of what a reader returns
Zero(reader) ==
    CASE reader = "Long" -> Val("int64", 0, Zeros(8))
      [] reader = "Double" -> Val("float64", 0, Zeros(8))
      [] reader = "Int" -> Val("int32", 0, Zeros(4))
      [] reader = "UInt" -> Val("uint32", 0, Zeros(4))
      [] reader = "String" -> Val("string", 0, <<>>)
      [] reader = "Bool" -> Num("bool", 0)
      [] OTHER -> Nil

\* C15: a reader called on a DecodeBuf whose error is set returns the zero
\* value of its type and leaves the buffer, its offset and its error as
\* they are.
C15_StickyError ==
    [][\A w \in Workers :
          /\ TypeOf(w) = "read" /\ workers[w].pc = "read"
          /\ workers[w].dbuf.err # "nil"
          /\ workers'[w] # workers[w]
          => /\ workers'[w].dbuf = workers[w].dbuf
             /\ workers'[w].ret = Zero(workers'[w].rd)]_vars

\* a read has set the error past the start of the buffer, bytes are left,
\* and a reader was called after that
C15_Witness ==
    \E w \in Workers :
        /\ TypeOf(w) = "read" /\ workers[w].pc = "read"
        /\ workers[w].dbuf.err # "nil"
        /\ workers[w].again
        /\ workers[w].dbuf.off > 0
        /\ workers[w].dbuf.off + 8 <= workers[w].dbuf.size
        /\ workers[w].rd = "Long"

(***************************************************************************)
(* SpecT: the transfer worker next to the other producers of the internal  *)
(* queue (the ping worker) and its consumer (the send worker).             *)
(***************************************************************************)
WorkerStepT(w) ==
    \/ TransferLoop(w) \/ TransferSelect(w) \/ TransferPush(w)
    \/ PingTimer(w) \/ PingPush(w)
    \/ SendLoop(w) \/ SendPacket(w)

NextT ==
    \/ Send
    \/ \E w \in Workers : WorkerStepT(w)

SpecT == InitQ /\ [][NextT]_vars

\* cap(m.sendQueue) - len(m.sendQueue)
Headroom == IntCap - Len(sendQueue)

\* the transfer worker takes a packet off the external queue, or puts the
\* packet it took on the internal queue
Moves(w) ==
    /\ TypeOf(w) = "transfer"
    /\ \/ workers[w].pc = "select" /\ workers'[w].pc = "push"
       \/ workers[w].pc = "push" /\ workers'[w].pc = "loop"

\* C16: the transfer worker moves a packet from the external to the
\* internal queue only at a moment when the free capacity of the internal
\* queue is at least the capacity of the external queue; when it finds less
\* at its test it moves nothing.
C16_MovesOnlyWithHeadroom ==
    [][\A w \in Workers :
          /\ Moves(w) => Headroom >= ExtCap
          /\ TypeOf(w) = "transfer" /\ workers[w].pc = "loop" /\ Headroom < ExtCap
             => /\ extSendQueue' = extSendQueue \/ Len(extSendQueue') > Len(extSendQueue)
                /\ workers'[w].pc = "loop"]_vars

(***************************************************************************)
(* SpecC: containers.  The server sends containers of two items, each with *)
(* an even or odd seq_no; the items are pings with different ping_ids,     *)
(* results, acknowledgements and updates.                                  *)
(***************************************************************************)
ItemsC ==
    {TL_ping(7), TL_msgs_ack(<<0>>), Leaf("updateShort", 0, 0),
     TL_rpc_result(0, Leaf("data", 0, 0)), TL_rpc_result(0, TL_ping(9))}

InboundC ==
    {TL_MT_message(1, q, TL_msg_container(<<TL_MT_message(2, q2, a), TL_MT_message(3, q3, d)>>)) :
        q \in {0, 1}, q2 \in {0, 1}, q3 \in {0, 1},
        a \in {TL_ping(5), Leaf("updateShort", 0, 0)}, d \in ItemsC}
    \cup {TL_MT_message(1, q, d) : q \in {0, 1}, d \in ItemsC}

WorkerStepC(w) ==
    \/ SendLoop(w) \/ SendPacket(w)
    \/ ReadLoop(w) \/ ReadData(w, InboundC)
    \/ ProcClear(w) \/ ProcAcked(w) \/ ProcPush(w)

NextC == \E w \in Workers : WorkerStepC(w)

SpecC == InitQ /\ [][NextC]_vars

\* the messages of an inbound message in the order process returns for
\* them: the items of a container, then the message itself
Parts(m) == (IF m.data.t = "msg_container" THEN m.data.sub ELSE <<>>) \o <<m>>

\* the number of steps process has left when it has returned for part k
\* of m: the dispatch of the items behind k and the ack of their container
RECURSIVE After(_, _)
After(m, k) ==
    IF k >= Len(Parts(m)) THEN 0
    ELSE LET x == Parts(m)[k + 1] IN
         (IF k + 1 = Len(Parts(m)) THEN 0
          ELSE Len(ProcessOps(x.msgID, 0, x.data, TRUE, handleEvent)))
         + (IF x.seqNo % 2 = 1 THEN 1 ELSE 0)
         + After(m, k + 1)

\* the object of message x that process dispatches as a ping, if any: x's
\* own data, or the inner object of an rpc_result, which is dispatched with
\* the msg_id of the rpc_result and is followed by its clearPacketData
PingOf(x) == IF x.data.t = "rpc_result" THEN x.data.sub[1].data ELSE x.data

\* the read worker w puts the packet of its next step on the internal queue
Pushes(w) ==
    /\ TypeOf(w) = "read" /\ workers[w].pc = "process"
    /\ workers[w].ops[1].op = "push"
    /\ workers'[w] # workers[w]

\* C17: each item of a container is dispatched with its own msg_id and
\* seq_no: the pong for a ping item carries the item's msg_id and ping_id
\* and the item's ack names the item's msg_id; the ack of a message with an
\* odd seq_no is put on the queue after all nested processing of that
\* message, the one ack of a container after every item was handled.
C17_ItemsOwnIdsAckLast ==
    [][\A w \in Workers : Pushes(w) =>
          LET o == workers[w].ops[1]
              m == workers[w].cur
              left == Len(workers[w].ops) - 1
          IN
          /\ o.msg.t = "pong" =>
                \E k \in DOMAIN Parts(m) :
                    /\ PingOf(Parts(m)[k]).t = "ping"
                    /\ o.msg = TL_pong(Parts(m)[k].msgID, PingOf(Parts(m)[k]).a)
                    /\ left = After(m, k) + (IF Parts(m)[k].seqNo % 2 = 1 THEN 1 ELSE 0)
                              + (IF Parts(m)[k].data.t = "rpc_result" THEN 1 ELSE 0)
          /\ o.msg.t = "msgs_ack" =>
                \E k \in DOMAIN Parts(m) :
                    /\ Parts(m)[k].seqNo % 2 = 1
                    /\ o.msg = TL_msgs_ack(<<Parts(m)[k].msgID>>)
                    /\ left = After(m, k)]_vars

\* process has returned for a container with an odd seq_no whose items are
\* a ping and an rpc_result, both with an odd seq_no: the pong of the first
\* item and three acks are on their way, the container's ack last
C17_Witness ==
    \E w \in Workers :
        /\ TypeOf(w) = "read" /\ workers[w].pc = "loop"
        /\ workers[w].cur.seqNo = 1
        /\ workers[w].cur.data.t = "msg_container"
        /\ workers[w].cur.data.sub[1] = TL_MT_message(2, 1, TL_ping(5))
        /\ workers[w].cur.data.sub[2].seqNo = 1
        /\ workers[w].cur.data.sub[2].data.t = "rpc_result"
        /\ Cardinality(workers[w].acks) = 3
        /\ \E p \in DOMAIN packets : packets[p].msg = TL_pong(2, 5)
        /\ packets[Len(packets)].msg = TL_msgs_ack(<<1>>)

(***************************************************************************)
(* SpecK: acknowledgements from the server.  A caller sends a request, the *)
(* ping worker pings; the server acknowledges one or two msg_ids, among    *)
(* them ids that are pending with and without a response channel and an    *)
(* id that is not pending, and answers requests.                           *)
(***************************************************************************)
AbsentId == 9

InboundK ==
    LET ids == PendingIds \cup {AbsentId} IN
    {TL_MT_message(1, 0, TL_msgs_ack(<<i>>)) : i \in ids}
    \cup {TL_MT_message(1, 0, TL_msgs_ack(<<i, j>>)) : i \in ids, j \in ids}
    \cup {TL_MT_message(1, 0, TL_rpc_result(i, Leaf("data", 0, 0))) : i \in RequestIds}

WorkerStepK(w) ==
    \/ TransferLoop(w) \/ TransferSelect(w) \/ TransferPush(w)
    \/ PingTimer(w) \/ PingPush(w)
    \/ SendLoop(w) \/ SendPacket(w)
    \/ ReadLoop(w) \/ ReadData(w, InboundK)
    \/ ProcClear(w) \/ ProcAcked(w)

NextK ==
    \/ Send
    \/ \E w \in Workers : WorkerStepK(w)

SpecK == InitP /\ [][NextK]_vars

\* the read worker w is at case TL_msgs_ack
Acking(w) == TypeOf(w) = "read" /\ Processing(w, "acked") /\ workers'[w] # workers[w]

\* the packets of the pending table that the msgs_ack at hand lists
Listed(w) ==
    {p \in msgsByID : \E i \in DOMAIN workers[w].ops[1].ids :
                         packets[p].msgID = workers[w].ops[1].ids[i]}

\* C18: processing msgs_ack clears the needAck flag of every listed id that
\* is in the pending table and removes exactly the listed packets that have
\* no response channel; listed packets with a response channel stay in the
\* table, their channel unwritten; ids that are not in the table change
\* nothing.
C18_MsgsAck ==
    [][\A w \in Workers : Acking(w) =>
          /\ \A p \in Listed(w) : ~packets'[p].needAck
          /\ msgsByID' = msgsByID \ {p \in Listed(w) : ~packets[p].resp}
          /\ \A p \in Listed(w) :
                packets[p].resp =>
                    /\ p \in msgsByID'
                    /\ packets'[p] = [packets[p] EXCEPT !.needAck = FALSE]
          /\ \A p \in DOMAIN packets : p \notin Listed(w) => packets'[p] = packets[p]
          /\ DOMAIN packets' = DOMAIN packets]_vars

\* a msgs_ack of two ids was processed, one of a request with its flag set
\* and one that was not pending: the request is in the table with the flag
\* cleared and no response, and a ping that an earlier msgs_ack named has
\* left the table
C18_Witness ==
    \E w \in Workers, p \in msgsByID, q \in DOMAIN packets :
        /\ TypeOf(w) = "read" /\ workers[w].pc = "loop"
        /\ workers[w].cur.data.t = "msgs_ack"
        /\ workers[w].cur.data.ids = <<packets[p].msgID, AbsentId>>
        /\ packets[p].resp /\ ~packets[p].needAck /\ packets[p].delivered = 0
        /\ packets[q].msg.t = "ping" /\ q \in written /\ q \notin msgsByID

(***************************************************************************)
(* Properties of the encryption-ready flag over a reconnect (SpecA)        *)
(***************************************************************************)
\* the goroutine t passes from the Wait of reconnectToDc to its Connect, or
\* returns for an unknown data centre
Renews(t) == threads[t].pc = "wait" /\ threads'[t].pc \in {"connect", "failed"}

\* the Connect of goroutine t dials and starts its first two workers
Dials(t) == threads[t].pc = "connect" /\ threads'[t].pc = "handshake"

\* C19: a reconnect to a DC id other than the current one clears
\* encryptionReady, and the connect that follows finds it cleared: it runs
\* the key exchange and saves the session before it starts a worker, and
\* has the flag set from then on; a reconnect to the current DC id leaves
\* the flag as it is, and its connect runs no key exchange when the flag is
\* set.
C19_FlagOverReconnect ==
    [][\A t \in Threads :
          /\ Renews(t) =>
                encryptionReady' = (encryptionReady /\ threads[t].newDc = session.DcID)
          /\ threads[t].pc = "connect" /\ threads'[t].pc = "connect" =>
                encryptionReady' = encryptionReady
          /\ Dials(t) =>
                /\ encryptionReady'
                /\ store' = IF encryptionReady THEN store
                            ELSE [saved |-> TRUE, ServerSalt |-> session.ServerSalt,
                                  Addr |-> session.Addr]
          /\ threads[t].pc \in {"handshake", "config"} =>
                (encryptionReady => encryptionReady')]_vars

\* a reconnect has moved the session to another data centre and its Connect
\* has made a key there and saved the session
C19_Witness ==
    /\ threads[APP].op = "reconnect" /\ threads[APP].pc = "handshake"
    /\ threads[APP].newDc # DefaultDc
    /\ session.DcID = threads[APP].newDc
    /\ store.Addr = DCAddr(threads[APP].newDc).addr
    /\ encryptionReady
    /\ threads[AUTO].pc = "idle" /\ spawned = 0

(***************************************************************************)
(* FairSpecH: the stop phase of one reconnect.  Callers send, the ping     *)
(* worker pings and the server pings, so that workers are met waiting on   *)
(* a queue, putting a packet on the internal queue, reading and sleeping;  *)
(* the application calls Reconnect once.  Every worker that can step does, *)
(* and so does the reconnect.                                              *)
(***************************************************************************)
InitH ==
    /\ Established
    /\ budget = [fail |-> MaxFail, connFail |-> MaxConnFail, appOps |-> 0,
                 hs |-> 1, pk |-> 0]

InboundH == {TL_MT_message(1, 1, TL_ping(1))}

WorkerRunsH(w) ==
    \/ TransferLoop(w) \/ TransferSelect(w) \/ TransferPush(w)
    \/ PingLoop(w) \/ PingTimer(w) \/ PingPush(w)
    \/ SendLoop(w) \/ SendPacket(w)
    \/ ReadLoop(w) \/ ReadData(w, InboundH) \/ ReadClosed(w)
    \/ ProcPush(w)

StopPhase(t) == RStop(t) \/ RClose(t) \/ RWait(t)

NextH ==
    \/ Send
    \/ AppReconnect(DefaultDc)
    \/ StopPhase(APP)
    \/ \E w \in Workers : WorkerRunsH(w)

FairnessH ==
    /\ \A w \in Workers : WF_vars(WorkerRunsH(w))
    /\ WF_vars(StopPhase(APP))

FairSpecH == InitH /\ [][NextH]_vars /\ FairnessH

\* the initiator has pushed its stop tokens and closed the socket and is
\* at m.routinesWG.Wait()
Waiting(t) == threads[t].pc = "wait"

\* C20: after the initiator of a reconnect has pushed its stop tokens and
\* closed the socket, every worker that is still running takes a token and
\* exits, so the wait on the completion counter returns.
C20_StopPhaseTerminates ==
    Waiting(APP) ~> (routinesWG = 0 /\ ~Waiting(APP) /\ \A w \in Workers : workers[w].pc = "none")

\* the initiator waits while a worker is at a blocking send to the full
\* internal queue
C20_Witness ==
    /\ Waiting(APP)
    /\ Len(sendQueue) = IntCap
    /\ \E w \in Workers : workers[w].pc = "push" \/ Processing(w, "push")

(***************************************************************************)
(* Properties of the stop-token channel (FairSpecG)                        *)
(***************************************************************************)
\* a goroutine is started as a worker
Starts(w) == workers[w].pc = "none" /\ workers'[w].pc # "none"

\* C21: when workers of a new connection are started the stop-token channel
\* is empty, so that a worker can only take a token pushed after its start;
\* and an attempt that pushes its tokens finds no token of an earlier
\* attempt in the channel: the channel never holds more than the attempt
\* has pushed, and the ROUTINES_COUNT sends do not block.
C21_NoLeftoverTokens ==
    /\ [](\A t \in Threads : threads[t].pc = "stop" => routinesStop <= threads[t].i)
    /\ [][(\E w \in Workers : Starts(w)) => routinesStop = 0]_vars

\* an attempt of reconnectLogged has returned from a failed Close, and the
\* workers that were running have taken their tokens: one token is left,
\* with no worker to take it
C21_Witness ==
    /\ threads[AUTO].op = "logged" /\ threads[AUTO].pc = "failed"
    /\ threads[AUTO].i = ROUTINES_COUNT
    /\ routinesStop = 1
    /\ \A w \in Workers : workers[w].pc = "none"


(***************************************************************************)
(* SpecM: the mutex.  Two requests are in flight, callers send more, the   *)
(* server rotates the salt and answers, and debugRoutine, started by       *)
(* NewMTProtoExt and never stopped, walks the pending table under the      *)
(* mutex.                                                                  *)
(***************************************************************************)
\* the task of debugRoutine, as a holder of the mutex
DEBUG == 0 - 3

\* debugRoutine: m.mutex.Lock(), and the walk over m.msgsByID begins
DebugLock ==
    /\ mutex = 0
    /\ mutex' = DEBUG
    /\ UNCHANGED <<conn, encryptionReady, session, store, dcOptions, handleEvent,
                   extSendQueue, sendQueue, routinesStop, routinesWG,
                   reconnSemaphore, packets, msgsByID, lastMsgId, lastSeqNo,
                   threads, spawned, workers, unsent, moving, written, events,
                   budget>>

\* debugRoutine: the walk is over, m.mutex.Unlock()
DebugUnlock ==
    /\ mutex = DEBUG
    /\ mutex' = 0
    /\ UNCHANGED <<conn, encryptionReady, session, store, dcOptions, handleEvent,
                   extSendQueue, sendQueue, routinesStop, routinesWG,
                   reconnSemaphore, packets, msgsByID, lastMsgId, lastSeqNo,
                   threads, spawned, workers, unsent, moving, written, events,
                   budget>>

NextM ==
    \/ NextS
    \/ DebugLock
    \/ DebugUnlock

SpecM == InitS /\ [][NextM]_vars

\* worker w writes the session's server salt in this step
WritesSalt(w) == Processing(w, "salt") /\ workers'[w] # workers[w]

\* the step is taken by a task that holds the mutex during it: the mutex was
\* free for the step to take, or its holder is the worker that steps
HoldsMutex ==
    \/ mutex = 0
    \/ mutex \in Workers /\ workers'[mutex] # workers[mutex]

\* C22: every step that writes the session's server salt, and every step
\* that changes the pending table, is taken by a task that holds the mutex
\* during it, so none of them happens while another task holds the mutex.
C22_UnderMutex ==
    [][((\E w \in Workers : WritesSalt(w)) \/ msgsByID' # msgsByID) => HoldsMutex]_vars

\* the dispatcher is about to write a new salt while debugRoutine holds the
\* mutex
C22_Witness ==
    /\ mutex = DEBUG
    /\ \E w \in Workers : Processing(w, "salt")


\* task x holds the mutex and its next step is a send to the internal queue,
\* which is full
BlockedHolder(x) ==
    /\ mutex = x
    /\ Len(sendQueue) = IntCap
    /\ \/ x \in Workers /\ Processing(x, "pushing")
       \/ x \in Threads /\ threads[x].pc = "pushing"

\* C23: the mutex is never held by a task that is blocked on a send to the
\* internal queue, and a task that holds the mutex to re-enqueue the pending
\* packets always gets to the end of the re-enqueue and releases it.
C23_ReenqueueCompletes ==
    /\ [](\A x \in Workers \cup Threads : ~BlockedHolder(x))
    /\ (mutex # 0 ~> mutex = 0)

\* the dispatcher holds the mutex with packets still to push and the internal
\* queue full, while the send worker has taken a packet and waits for the
\* mutex to record it
C23_Witness ==
    \E w, v \in Workers :
        /\ BlockedHolder(w) /\ workers[w].push # {}
        /\ TypeOf(v) = "send" /\ workers[v].pc = "send"
        /\ \A u \in Workers : ~ENABLED WorkerRunsS(u)


(***************************************************************************)
(* SpecW: the workers around a handshake.  On an established connection    *)
(* the ping worker may enqueue a ping, a read may fail once, which starts   *)
(* reconnectLogged, and the application may call Reconnect once; the       *)
(* server answers a handshake with the config or with something else.      *)
(***************************************************************************)
InboundW ==
    {TL_MT_message(1, 0, TL_rpc_result(i, Leaf(o, 0, 0))) :
        i \in RequestIds, o \in {"config", "data"}}

InitW ==
    /\ Established
    /\ budget = [fail |-> MaxFail - 1, connFail |-> MaxConnFail, appOps |-> 0,
                 hs |-> 1, pk |-> MaxPackets - 1]

WorkerStepW(w) ==
    \/ TransferLoop(w) \/ TransferSelect(w)
    \/ PingLoop(w) \/ PingTimer(w) \/ PingPush(w)
    \/ SendLoop(w) \/ SendPacket(w)
    \/ ReadLoop(w) \/ ReadData(w, InboundW) \/ ReadFail(w) \/ ReadClosed(w)
    \/ ProcClear(w)

NextW ==
    \/ AppReconnect(DefaultDc)
    \/ LoggedStart \/ LoggedRetry \/ LoggedReturn
    \/ \E t \in Threads : ThreadStepR(t)
    \/ \E w \in Workers : WorkerStepW(w)

SpecW == InitW /\ [][NextW]_vars

\* goroutine t is inside Connect and the response to its handshake has not
\* arrived
AwaitsConfig(t) ==
    \/ threads[t].pc \in {"connect", "handshake"}
    \/ threads[t].pc = "config" /\ packets[threads[t].hs].delivered = 0

\* the ping worker w puts its ping on the internal queue in this step
Pings(w) ==
    TypeOf(w) = "ping" /\ workers[w].pc = "push" /\ workers'[w].pc = "loop"

\* goroutine t has the config response of its handshake in hand
HasConfig(t) ==
    /\ threads[t].pc = "config"
    /\ packets[threads[t].hs].delivered > 0
    /\ packets[threads[t].hs].val = "config"

\* C24: while a Connect waits for the response to its handshake no packet
\* moves from the external to the internal queue and no ping is enqueued;
\* a transfer worker or a ping worker is started only in a step of a
\* Connect that has the config response of its handshake in hand.
C24_QuietUntilConfig ==
    /\ [][(\E t \in Threads : AwaitsConfig(t))
            => \A w \in Workers : ~Moves(w) /\ ~Pings(w)]_vars
    /\ [][\A w \in Workers :
            Starts(w) /\ TypeOf(w) \in {"transfer", "ping"}
                => \E t \in Threads : HasConfig(t) /\ threads'[t].pc # "config"]_vars

\* a ping worker holds a ping to enqueue while a Connect waits for the
\* response to its handshake
C24_Witness ==
    /\ \E t \in Threads : AwaitsConfig(t)
    /\ \E w \in Workers : TypeOf(w) = "ping" /\ workers[w].pc = "push"


\* the send worker w hands its packet to m.send in this step
Writes(w) ==
    TypeOf(w) = "send" /\ workers[w].pc = "send" /\ workers'[w].pc # "send"

\* the response to the request of packet p has been put on its channel
Delivered(p) == packets[p].delivered > 0

\* C25: a packet whose response has been delivered to its channel is not
\* handed to the socket again and does not enter the pending table again.
C25_NoResendAfterDelivery ==
    /\ [][\A w \in Workers : Writes(w) => ~Delivered(workers[w].pkt)]_vars
    /\ [][\A p \in DOMAIN packets :
            Delivered(p) /\ p \notin msgsByID => p \notin msgsByID']_vars

\* a request that a reconnect put on the internal queue again has been
\* answered, and its packet is in the pending table once more
C25_Witness ==
    \E p \in msgsByID :
        /\ Delivered(p)
        /\ \E t \in Threads : \E x \in threads[t].pendingIDs : x[1] = packets[p].msgID

====
